---- MODULE Spec2Model ----
(***************************************************************************)
(* A model of the Appium UI-watchers plugin: the watcher store, the        *)
(* watcher checking pass, the element reference cache and the three        *)
(* intercepted commands (findElement, findElements, element actions).      *)
(*                                                                         *)
(* The variables store and cache are the registry and the cache of one     *)
(* session, whose handlers are one atomic action each; what the automation *)
(* driver answers to each call the handler makes is an input of the        *)
(* action.  The record `last` is the observation of the most recent        *)
(* intercepted call: which driver calls it made, in order, and what the    *)
(* caller received.  The variable plugin holds the plugin's two Maps from  *)
(* session ids to registries and caches, flight the lookup that is         *)
(* suspended in an await, and ended the sessions that were torn down.      *)
(***************************************************************************)
EXTENDS Integers, Sequences, FiniteSets, TLC

VARIABLES store, cache, now, last, plugin, flight, ended

vars == <<store, cache, now, last, plugin, flight, ended>>

\* --------------------------------------------------------------- bounds
\* The logical clock runs from 0 to MaxTime.
MaxTime == 2
\* At most MaxCalls intercepted commands are issued in one behaviour.
MaxCalls == 2

\* Calls observed in a recovery session, and in a registry session.
MaxRecoveryCalls == 3
MaxRegistryCalls == 1
\* Calls observed in a session about the passes.
MaxPassCalls == 2
\* Commands observed in a session of registry commands.
MaxCommands == 4
\* Commands observed in a session that fills the registry.
MaxCapacityCommands == 7
\* Calls on the cache observed in a session about the cache alone.
MaxCacheCalls == 4
\* The clock of that session runs past the TTL of an entry cached at 0.
MaxCacheTime == 3
\* Mappings recorded in a session about the id mappings alone.
MaxMappingCalls == 3
\* Passes observed in a behaviour in which watchers expire during a pass.
MaxExpiryCalls == 2
\* Calls observed in a behaviour over the re-location of stale elements.
MaxRelocateCalls == 3
\* Passes and lookups observed in a behaviour over the trigger statistics.
MaxTriggerCalls == 2
\* Calls observed in a behaviour over the wire shapes of elements.
MaxWireCalls == 2
\* Steps observed in a behaviour of two sessions.
MaxSessionSteps == 7
\* The longest duration a watcher may be registered for (MAX_DURATION_MS is
\* 60000 ms in the code; the model scales it down with the clock).
MaxDurationMs == 3
\* Cache capacity and time-to-live of the modelled configuration (the
\* defaults are 50 entries and 60000 ms; the model scales them down).
MaxCacheEntries == 2
ElementTtlMs == 2

\* ------------------------------------------------------------ constants
MAX_WATCHERS == 5

\* lastTriggeredAt of a watcher that never fired (null in the code).
NoTime == -1

None == "none"

WatcherNames == {"w1", "w2", "w3"}
Priorities == {0, 1}
ElementIds == {"e1", "e2", "e3"}

Locator(v) == [using |-> "id", value |-> v]

\* The locators a watcher is registered with: one pair per watcher name.
ReferenceLocatorOf(name) == [using |-> "id", value |-> <<"popup", name>>]
ActionLocatorOf(name) == [using |-> "id", value |-> <<"close", name>>]

\* ------------------------------------------------------- sequence helpers
IndexOf(s, x) ==
  IF \E i \in 1..Len(s) : s[i] = x
  THEN CHOOSE i \in 1..Len(s) : s[i] = x /\ \A j \in 1..(i - 1) : s[j] # x
  ELSE 0

RemoveAt(s, i) == SubSeq(s, 1, i - 1) \o SubSeq(s, i + 1, Len(s))

\* ============================================================ WatcherStore
\* A store is [watchers, enabled]; watchers is the Map's content in
\* insertion order, one WatcherState record per entry.

NewStore == [watchers |-> <<>>, enabled |-> TRUE]

HasWatcher(st, name) == \E i \in 1..Len(st.watchers) : st.watchers[i].name = name

WatcherIndex(st, name) == CHOOSE i \in 1..Len(st.watchers) : st.watchers[i].name = name

\* get(name): the stored record, expired or not (defined when present).
GetWatcher(st, name) == st.watchers[WatcherIndex(st, name)]

\* A store whose watchers never expire.
NeverExpired(w, t) == FALSE

IsExpiredWatcher(w, t) == t >= w.expiresAt

\* getActiveWatchers(): the unexpired watchers in Map order; the expired
\* ones are deleted from the Map as a side effect.
GetActiveWatchers(st, t) ==
  LET active == SelectSeq(st.watchers, LAMBDA w : ~IsExpiredWatcher(w, t))
  IN [store |-> [st EXCEPT !.watchers = active], active |-> active]

\* A comparator that puts the lower priority first.
CompareAscending(a, b) ==
  IF a.priority # b.priority
  THEN a.priority - b.priority
  ELSE a.registeredAt - b.registeredAt

\* The comparator of getSortedWatchers.
Compare(a, b) ==
  IF a.priority # b.priority
  THEN b.priority - a.priority
  ELSE a.registeredAt - b.registeredAt

\* Array.prototype.sort is stable: an element is placed after every element
\* that does not compare greater than it.
RECURSIVE InsertSorted(_, _)
InsertSorted(w, s) ==
  IF s = <<>> THEN <<w>>
  ELSE IF Compare(Head(s), w) <= 0
       THEN <<Head(s)>> \o InsertSorted(w, Tail(s))
       ELSE <<w>> \o s

RECURSIVE SortWatchers(_)
SortWatchers(s) ==
  IF s = <<>> THEN <<>>
  ELSE InsertSorted(s[Len(s)], SortWatchers(SubSeq(s, 1, Len(s) - 1)))

GetSortedWatchers(st, t) ==
  LET g == GetActiveWatchers(st, t)
  IN [store |-> g.store, sorted |-> SortWatchers(g.active)]

\* A registration parameter that is omitted is a field the record lacks;
\* `p.field ?? default`.
OrDefault(p, field, default) ==
  IF field \in DOMAIN p THEN p[field] ELSE default

\* add(watcher): the duplicate check looks at the Map as stored; the limit
\* counts the unexpired watchers (and prunes the expired ones).
Add(st, p, t) ==
  IF HasWatcher(st, p.name)
  THEN [store |-> st, error |-> "AlreadyExists"]
  ELSE LET g == GetActiveWatchers(st, t) IN
       IF Len(g.active) >= MAX_WATCHERS
       THEN [store |-> g.store, error |-> "MaximumReached"]
       ELSE LET w == [name |-> p.name,
                      priority |-> OrDefault(p, "priority", 0),
                      referenceLocator |-> ReferenceLocatorOf(p.name),
                      actionLocator |-> ActionLocatorOf(p.name),
                      duration |-> p.duration,
                      stopOnFound |-> OrDefault(p, "stopOnFound", FALSE),
                      cooldownMs |-> OrDefault(p, "cooldownMs", 0),
                      registeredAt |-> t,
                      expiresAt |-> t + p.duration,
                      status |-> "active",
                      triggerCount |-> 0,
                      lastTriggeredAt |-> NoTime]
            IN [store |-> [g.store EXCEPT !.watchers = Append(@, w)],
                error |-> None]

\* A store that deletes nothing.
RemoveNothing(st, name) == st

\* remove(name)
Remove(st, name) ==
  [st EXCEPT !.watchers = SelectSeq(@, LAMBDA w : w.name # name)]

Clear(st) == [st EXCEPT !.watchers = <<>>]

\* A store that leaves the status of its watchers alone.
MarkInactiveNot(st, name) == st

\* A store in which one dismissal stops every watcher.
MarkAllInactive(st, name) ==
  [st EXCEPT !.watchers =
     [i \in 1..Len(st.watchers) |->
        [st.watchers[i] EXCEPT !.status = "inactive"]]]

MarkInactive(st, name) ==
  IF HasWatcher(st, name)
  THEN [st EXCEPT !.watchers[WatcherIndex(st, name)].status = "inactive"]
  ELSE st

\* A count that keeps no time of the trigger.
CountOnly(st, name, t) ==
  IF HasWatcher(st, name)
  THEN [st EXCEPT !.watchers[WatcherIndex(st, name)].triggerCount = @ + 1]
  ELSE st

IncrementTriggerCount(st, name, t) ==
  IF HasWatcher(st, name)
  THEN [st EXCEPT !.watchers[WatcherIndex(st, name)].triggerCount = @ + 1,
                  !.watchers[WatcherIndex(st, name)].lastTriggeredAt = t]
  ELSE st

Disable(st) == [st EXCEPT !.enabled = FALSE]

Enable(st) == [st EXCEPT !.enabled = TRUE]

\* A gate that is always open.
GateIgnored(st) == TRUE

IsEnabled(st) == st.enabled

\* =================================================== ElementReferenceCache
\* A cache is [entries, idMappings, reverseIndex, accessOrder]: entries maps
\* the cached element ids to their CachedRef, idMappings maps old ids to new
\* ids, reverseIndex maps a new id to the set of old ids pointing at it, and
\* accessOrder lists the ids from least to most recently used.

NewCache ==
  [entries |-> <<>>, idMappings |-> <<>>, reverseIndex |-> <<>>,
   accessOrder |-> <<>>]

\* Map.set and Map.delete on a function with a finite domain.
MapSet(m, k, v) == [x \in (DOMAIN m) \cup {k} |-> IF x = k THEN v ELSE m[x]]

MapDelete(m, k) == [x \in (DOMAIN m) \ {k} |-> m[x]]

CachedElementRef(using, value, t) ==
  [using |-> using, value |-> value, source |-> "findElement", createdAt |-> t]

CachedElementsRef(using, value, i, t) ==
  [using |-> using, value |-> value, index |-> i, source |-> "findElements",
   createdAt |-> t]

\* A cache whose entries never expire.
NeverStale(ref, t) == FALSE

IsExpired(ref, t) == t - ref.createdAt >= ElementTtlMs

\* A cache that does not note which entry was used last.
ForgetAccessOrder(c, id) == c

UpdateAccessOrder(c, id) ==
  LET i == IndexOf(c.accessOrder, id)
      removed == IF i # 0 THEN RemoveAt(c.accessOrder, i) ELSE c.accessOrder
  IN [c EXCEPT !.accessOrder = Append(removed, id)]

\* A removal that leaves the id in the recency order.
RemoveEntryOnly(c, id) == [c EXCEPT !.entries = MapDelete(@, id)]

RemoveFromCache(c, id) ==
  LET i == IndexOf(c.accessOrder, id)
  IN [c EXCEPT !.entries = MapDelete(@, id),
               !.accessOrder = IF i # 0 THEN RemoveAt(@, i) ELSE @]

\* An eviction that removes the most recently used entry.
EvictMRU(c) ==
  IF Len(c.accessOrder) = 0 THEN c
  ELSE [c EXCEPT !.entries = MapDelete(@, c.accessOrder[Len(c.accessOrder)]),
                 !.accessOrder = SubSeq(@, 1, Len(@) - 1)]

EvictLRU(c) ==
  IF Len(c.accessOrder) = 0 THEN c
  ELSE [c EXCEPT !.entries = MapDelete(@, Head(c.accessOrder)),
                 !.accessOrder = Tail(@)]

\* The loop `while (size >= maxCacheEntries) evictLRU()`.  With nothing left
\* in accessOrder evictLRU changes nothing; the loop is cut there.
RECURSIVE EvictWhileFull(_)
EvictWhileFull(c) ==
  IF Cardinality(DOMAIN c.entries) >= MaxCacheEntries /\ Len(c.accessOrder) > 0
  THEN EvictWhileFull(EvictLRU(c))
  ELSE c

AddToCache(c, id, ref) ==
  LET e == EvictWhileFull(c)
  IN UpdateAccessOrder([e EXCEPT !.entries = MapSet(@, id, ref)], id)

CacheElement(c, id, using, value, t) ==
  AddToCache(c, id, CachedElementRef(using, value, t))

\* cacheElements: element i of the result (counted from 0) is cached with
\* index i, in result order.
RECURSIVE CacheElementsFrom(_, _, _, _, _, _)
CacheElementsFrom(c, elements, i, using, value, t) ==
  IF i > Len(elements) THEN c
  ELSE CacheElementsFrom(
         AddToCache(c, elements[i], CachedElementsRef(using, value, i - 1, t)),
         elements, i + 1, using, value, t)

CacheElements(c, elements, using, value, t) ==
  CacheElementsFrom(c, elements, 1, using, value, t)

\* getRef: [cache, found, ref]; an expired entry is removed, a hit is moved
\* to the most recently used end.
GetRef(c, id, t) ==
  IF id \notin DOMAIN c.entries
  THEN [cache |-> c, found |-> FALSE]
  ELSE IF IsExpired(c.entries[id], t)
       THEN [cache |-> RemoveFromCache(c, id), found |-> FALSE]
       ELSE [cache |-> UpdateAccessOrder(c, id), found |-> TRUE,
             ref |-> c.entries[id]]

\* A clear that keeps the id mappings.
ClearEntriesOnly(c) == [c EXCEPT !.entries = <<>>, !.accessOrder = <<>>]

\* clear(): the entries, the mappings, the reverse index and the recency
\* order are emptied.
ClearCache(c) ==
  [entries |-> <<>>, idMappings |-> <<>>, reverseIndex |-> <<>>,
   accessOrder |-> <<>>]

\* cleanup(): every entry as old as the TTL is removed.
RECURSIVE Cleanup(_, _)
Cleanup(c, t) ==
  LET old == { id \in DOMAIN c.entries : t - c.entries[id].createdAt >= ElementTtlMs }
  IN IF old = {} THEN c
     ELSE Cleanup(RemoveFromCache(c, CHOOSE id \in old : TRUE), t)

AddToReverseIndex(rev, oldId, newId) ==
  MapSet(rev, newId,
         (IF newId \in DOMAIN rev THEN rev[newId] ELSE {}) \cup {oldId})

\* setMapping: step 1 re-points every mapping whose target is oldId (the
\* reverse index of oldId) to newId; step 2 sets oldId -> newId.
SetMapping(c, oldId, newId) ==
  LET pointing == IF oldId \in DOMAIN c.reverseIndex
                  THEN c.reverseIndex[oldId] ELSE {}
      maps1 == [x \in (DOMAIN c.idMappings) \cup pointing |->
                  IF x \in pointing THEN newId ELSE c.idMappings[x]]
      rev0 == IF pointing = {} THEN c.reverseIndex
              ELSE MapSet(c.reverseIndex, newId,
                     (IF newId \in DOMAIN c.reverseIndex
                      THEN c.reverseIndex[newId] ELSE {}) \cup pointing)
      rev1 == IF oldId \in DOMAIN c.reverseIndex THEN MapDelete(rev0, oldId)
              ELSE rev0
  IN [c EXCEPT !.idMappings = MapSet(maps1, oldId, newId),
               !.reverseIndex = AddToReverseIndex(rev1, oldId, newId)]

HasMapping(c, id) == id \in DOMAIN c.idMappings

\* getMappedId(id) || id
ResolveId(c, id) == IF HasMapping(c, id) THEN c.idMappings[id] ELSE id

\* ========================================================== the driver
\* What a driver call can answer.  An error carries the attempt it was
\* raised at, so that two failures of the same kind are two error objects.
NoSuchElement == [name |-> "NoSuchElementError", message |-> "no such element"]

StaleElement == [name |-> "StaleElementReferenceError", message |-> "gone"]

NotLocated == [name |-> "Error", message |-> "An element could not be located"]

StaleMessage == [name |-> "Error", message |-> "stale element reference"]

NotAttached == [name |-> "Error", message |-> "element is not attached"]

Timeout == [name |-> "TimeoutError", message |-> "timed out"]

Failure(kind, at) ==
  [kind |-> "error",
   error |-> [name |-> kind.name, message |-> kind.message, at |-> at]]

Failures(kinds, at) == { Failure(k, at) : k \in kinds }

\* findElement answers one element or fails.
Found(id) == [kind |-> "ok", element |-> id]

\* findElements answers a list of elements (possibly empty) or fails.
FoundMany(ids) == [kind |-> "ok", elements |-> ids]

\* The lists findElements may answer: none, one element, two, and more
\* than the cache holds.
ElementLists ==
  { <<>>, <<"e1">>, <<"e2", "e1">>, <<"e3", "e1", "e2">> }

\* An element command answers a value or fails.
Done(at) == [kind |-> "ok", value |-> <<"result", at>>]

\* A driver d is what the automation driver may answer in a specification:
\*   d.watcher       what may happen when a watcher is checked
\*   d.findElement   the answers to a findElement after the first attempt
\*   d.findElements  the answers to a findElements after the first attempt
\*   d.command       the answers to the retry of an element command
FindElementAnswers(ids, kinds, at) ==
  { Found(id) : id \in ids } \cup Failures(kinds, at)

FindElementsAnswers(lists, kinds, at) ==
  { FoundMany(l) : l \in lists } \cup Failures(kinds, at)

CommandAnswers(kinds, at) == {Done(at)} \cup Failures(kinds, at)

\* ========================================================= checkWatchers
\* What happens when one watcher is checked: its reference is not found,
\* its action element is not found, the click fails, or the click succeeds.
WatcherAnswers == {"referenceNotFound", "actionNotFound", "clickFailed", "clicked"}

DriverCall(cmd, locator, t) == [cmd |-> cmd, locator |-> locator, at |-> t]

\* A pass that does not wait after a dismissal.
NoCooldown(w, t) == t

\* The time after the cooldown wait of the watcher w that fired at time t:
\* the wait is made whenever cooldownMs > 0.
AfterCooldown(w, t) == IF w.cooldownMs > 0 THEN t + w.cooldownMs ELSE t

\* An iteration that counts a trigger as soon as the reference is found.
CheckOneEager(acc, name, answers) ==
  IF GetWatcher(acc.store, name).status = "inactive"
       \/ answers[name] = "referenceNotFound"
  THEN acc
  ELSE [acc EXCEPT !.store = IncrementTriggerCount(acc.store, name, acc.now),
                   !.triggered = TRUE]

\* One iteration of the loop over the sorted watchers, for watcher `name`;
\* answers[name] is what the driver answers when it is checked.  acc is
\* [store, now, log, triggered].
CheckOne(acc, name, answers) ==
  LET w == GetWatcher(acc.store, name)
      ref == DriverCall("findElement", w.referenceLocator, acc.now)
      act == DriverCall("findElement", w.actionLocator, acc.now)
      click == DriverCall("click", w.actionLocator, acc.now)
  IN IF w.status = "inactive" THEN acc
     ELSE IF answers[name] = "referenceNotFound"
     THEN [acc EXCEPT !.log = @ \o <<ref>>]
     ELSE IF answers[name] = "actionNotFound"
     THEN [acc EXCEPT !.log = @ \o <<ref, act>>]
     ELSE IF answers[name] = "clickFailed"
     THEN [acc EXCEPT !.log = @ \o <<ref, act, click>>]
     ELSE LET s1 == IncrementTriggerCount(acc.store, name, acc.now)
              s2 == IF w.stopOnFound THEN MarkInactive(s1, name) ELSE s1
          IN [store |-> s2,
              now |-> AfterCooldown(w, acc.now),
              log |-> acc.log \o <<ref, act, click>>,
              triggered |-> TRUE]

\* A pass that ends at the first watcher that fired.
RECURSIVE PassLoopUntilFired(_, _, _, _)
PassLoopUntilFired(sorted, i, acc, answers) ==
  IF i > Len(sorted) \/ acc.triggered THEN acc
  ELSE PassLoopUntilFired(sorted, i + 1,
                          CheckOne(acc, sorted[i].name, answers), answers)

RECURSIVE PassLoop(_, _, _, _)
PassLoop(sorted, i, acc, answers) ==
  IF i > Len(sorted) THEN acc
  ELSE PassLoop(sorted, i + 1, CheckOne(acc, sorted[i].name, answers), answers)

\* checkWatchers(driver, store) at time t; answers maps the name of every
\* watcher of the snapshot to what the driver answers when it is checked.
\* The result is [store, now, log, triggered]: log lists the driver calls.
CheckWatchers(st, t, answers) ==
  IF ~IsEnabled(st)
  THEN [store |-> st, now |-> t, log |-> <<>>, triggered |-> FALSE]
  ELSE LET g == GetSortedWatchers(st, t) IN
       IF Len(g.sorted) = 0
       THEN [store |-> g.store, now |-> t, log |-> <<>>, triggered |-> FALSE]
       ELSE PassLoop(g.sorted, 1,
                     [store |-> g.store, now |-> t, log |-> <<>>,
                      triggered |-> FALSE],
                     answers)

\* The watchers the driver is asked about in a pass over st at time t: the
\* unexpired ones whose status is active, when the store is enabled.
SnapshotNames(st, t) ==
  IF ~IsEnabled(st) THEN {}
  ELSE { st.watchers[i].name : i \in
           { j \in 1..Len(st.watchers) :
               /\ ~IsExpiredWatcher(st.watchers[j], t)
               /\ st.watchers[j].status = "active" } }

\* Every way one pass can go, over all the driver's answers.
CheckWatchersRuns(d, st, t) ==
  { CheckWatchers(st, t, answers) :
      answers \in [SnapshotNames(st, t) -> d.watcher] }

\* ================================================================ plugin
\* The observation of one intercepted call.
NoAnswer == [kind |-> "none"]

NoLocator == [using |-> None, value |-> None]

NoCall ==
  [seq |-> 0, op |-> None, locator |-> NoLocator, elementId |-> None,
   first |-> NoAnswer, nextCalls |-> 0, passes |-> 0, triggered |-> FALSE,
   passLog |-> <<>>, actualId |-> None, refFound |-> FALSE,
   relocations |-> <<>>, newId |-> None, invoked |-> <<>>,
   outcome |-> NoAnswer, params |-> NoAnswer, reply |-> NoAnswer,
   session |-> None]

\* The error classification of findElement.
ShouldCheckWatchers(error) ==
  \/ error.name = "NoSuchElementError"
  \/ error.name = "StaleElementReferenceError"
  \/ error.message = "An element could not be located"

IsStaleElementException(error) ==
  \/ error.name = "StaleElementReferenceError"
  \/ error.message = "stale element reference"
  \/ error.message = "element is not attached"

\* findElement and findElements retry after the pass whatever it returned.
LookupRetries(triggered) == TRUE

\* A handler that surfaces the failure of the retry.
SurfaceRetryFailure(first, retry) == retry

\* What findElement throws when the retry fails too.
FindElementRetryFailed(first, retry) == first

\* A findElements that surfaces the failure of the retry.
SurfaceRetryFailureMany(first, retry) == retry

\* What findElements returns (after an empty result) or throws (after a
\* failure) when the retry fails.
FindElementsRetryFailed(first, retry) == first

\* The cache after findElement answered `answer` for (using, value).
CacheFound(c, answer, locator, t) ==
  CacheElement(c, answer.element, locator.using, locator.value, t)

\* The cache after findElements answered `answer` for (using, value).
CacheFoundMany(c, answer, locator, t) ==
  IF Len(answer.elements) > 0
  THEN CacheElements(c, answer.elements, locator.using, locator.value, t)
  ELSE c

Run(st, c, t, obs) == [store |-> st, cache |-> c, now |-> t, obs |-> obs]

\* findElement(next, driver, using, value) with the first next() answering
\* `first`: every way the handler can run.
FindElementRuns(d, st, c, t, locator, first) ==
  LET obs == [NoCall EXCEPT !.op = "findElement", !.locator = locator,
                            !.first = first, !.nextCalls = 1]
  IN IF first.kind = "ok"
     THEN { Run(st, CacheFound(c, first, locator, t), t,
                [obs EXCEPT !.outcome = first]) }
     ELSE IF ShouldCheckWatchers(first.error)
     THEN UNION {
            LET o1 == [obs EXCEPT !.passes = 1, !.triggered = p.triggered,
                                  !.passLog = p.log]
            IN IF LookupRetries(p.triggered)
               THEN { IF retry.kind = "ok"
                      THEN Run(p.store, CacheFound(c, retry, locator, p.now), p.now,
                               [o1 EXCEPT !.nextCalls = 2, !.outcome = retry])
                      ELSE Run(p.store, c, p.now,
                               [o1 EXCEPT !.nextCalls = 2,
                                          !.outcome = FindElementRetryFailed(first, retry)])
                      : retry \in d.findElement }
               ELSE { Run(p.store, c, p.now, [o1 EXCEPT !.outcome = first]) }
            : p \in CheckWatchersRuns(d, st, t) }
     ELSE { Run(st, c, t, [obs EXCEPT !.outcome = first]) }

\* The part of findElements after checkWatchers, the same at its two retry
\* sites (after an empty result and after a failure).
FindElementsRetry(d, p, c, locator, obs, first) ==
  LET o1 == [obs EXCEPT !.passes = 1, !.triggered = p.triggered,
                        !.passLog = p.log]
  IN IF LookupRetries(p.triggered)
     THEN { IF retry.kind = "ok"
            THEN Run(p.store, CacheFoundMany(c, retry, locator, p.now), p.now,
                     [o1 EXCEPT !.nextCalls = 2, !.outcome = retry])
            ELSE Run(p.store, c, p.now,
                     [o1 EXCEPT !.nextCalls = 2,
                                !.outcome = FindElementsRetryFailed(first, retry)])
            : retry \in d.findElements }
     ELSE { Run(p.store, c, p.now, [o1 EXCEPT !.outcome = first]) }

\* findElements(next, driver, using, value) with the first next() answering
\* `first`.
FindElementsRuns(d, st, c, t, locator, first) ==
  LET obs == [NoCall EXCEPT !.op = "findElements", !.locator = locator,
                            !.first = first, !.nextCalls = 1]
  IN IF first.kind = "ok" /\ Len(first.elements) > 0
     THEN { Run(st, CacheFoundMany(c, first, locator, t), t,
                [obs EXCEPT !.outcome = first]) }
     ELSE UNION { FindElementsRetry(d, p, c, locator, obs, first)
                  : p \in CheckWatchersRuns(d, st, t) }

\* The errors interceptAction raises itself.
RecoveryError ==
  [kind |-> "error",
   error |-> [name |-> "Error",
              message |-> "Element reference not found in cache",
              at |-> "plugin"]]

IndexError ==
  [kind |-> "error",
   error |-> [name |-> "Error",
              message |-> "Element at index not found in findElements result",
              at |-> "plugin"]]

\* The id the first attempt of an element command acts on: next() runs the
\* command as the client sent it.
FirstAttemptId(elementId, actualId) == elementId

\* A retry that acts on the id the client sent.
RetryWithOldId(elementId, newId) == elementId

\* The id the retry of an element command acts on.
RetryId(elementId, newId) == newId

\* The id the new mapping is recorded for.
MappedFrom(elementId, actualId) == elementId

\* A lookup of the cached locator under the id the client sent.
RefLookupRawId(elementId, actualId) == elementId

\* The id whose cached locator is looked up.
RefLookupId(elementId, actualId) == actualId

\* An element command that recovers whatever the pass returned.
ActionRecoversAlways(triggered) == TRUE

\* interceptAction goes on to the recovery only when a watcher fired.
ActionRecovers(triggered) == triggered

\* A recovery that runs the command again when its retry failed.
RemapAndRetryTwice(d, st, c, t, obs, newId) ==
  LET c1 == SetMapping(c, obs.elementId, newId)
  IN UNION { IF retry.kind = "ok"
             THEN { Run(st, c1, t,
                        [obs EXCEPT !.nextCalls = 2, !.newId = newId,
                                    !.invoked = @ \o <<newId>>,
                                    !.outcome = retry]) }
             ELSE { Run(st, c1, t,
                        [obs EXCEPT !.nextCalls = 3, !.newId = newId,
                                    !.invoked = @ \o <<newId, newId>>,
                                    !.outcome = again])
                    : again \in d.command }
             : retry \in d.command }

\* Steps 5 and 6 of interceptAction, with the re-found element newId.
RemapAndRetry(d, st, c, t, obs, newId) ==
  LET c1 == SetMapping(c, MappedFrom(obs.elementId, obs.actualId), newId)
      id == RetryId(obs.elementId, newId)
  IN { Run(st, c1, t,
           [obs EXCEPT !.nextCalls = 2, !.newId = newId,
                       !.invoked = @ \o <<id>>, !.outcome = retry])
       : retry \in d.command }

\* A re-location that looks every cached entry up as a single result.
RelocateAsSingle(d, st, c, t, obs, ref) ==
  LET locator == [using |-> ref.using, value |-> ref.value]
      o1 == [obs EXCEPT !.relocations =
                          <<DriverCall("findElement", locator, t)>>]
  IN UNION { IF a.kind = "ok"
             THEN RemapAndRetry(d, st, c, t, o1, a.element)
             ELSE { Run(st, c, t, [o1 EXCEPT !.outcome = a]) }
             : a \in d.findElement }

\* Step 4 of interceptAction: re-find the element with the cached locator.
Relocate(d, st, c, t, obs, ref) ==
  LET locator == [using |-> ref.using, value |-> ref.value] IN
  IF ref.source = "findElement"
  THEN UNION {
         LET o1 == [obs EXCEPT !.relocations =
                                 <<DriverCall("findElement", locator, t)>>]
         IN IF a.kind = "ok"
            THEN RemapAndRetry(d, st, c, t, o1, a.element)
            ELSE { Run(st, c, t, [o1 EXCEPT !.outcome = a]) }
         : a \in d.findElement }
  ELSE UNION {
         LET o1 == [obs EXCEPT !.relocations =
                                 <<DriverCall("findElements", locator, t)>>]
         IN IF a.kind = "ok"
            THEN IF Len(a.elements) <= ref.index
                 THEN { Run(st, c, t, [o1 EXCEPT !.outcome = IndexError]) }
                 ELSE RemapAndRetry(d, st, c, t, o1, a.elements[ref.index + 1])
            ELSE { Run(st, c, t, [o1 EXCEPT !.outcome = a]) }
         : a \in d.findElements }

\* Steps 2 and 3 of interceptAction, after the pass p.
Recover(d, p, c, obs) ==
  LET o1 == [obs EXCEPT !.passes = 1, !.triggered = p.triggered,
                        !.passLog = p.log]
  IN IF ~ActionRecovers(p.triggered)
     THEN { Run(p.store, c, p.now, [o1 EXCEPT !.outcome = obs.first]) }
     ELSE LET g == GetRef(c, RefLookupId(obs.elementId, obs.actualId), p.now) IN
          IF ~g.found
          THEN { Run(p.store, g.cache, p.now, [o1 EXCEPT !.outcome = RecoveryError]) }
          ELSE Relocate(d, p.store, g.cache, p.now, [o1 EXCEPT !.refFound = TRUE],
                        g.ref)

\* interceptAction(next, driver, elementId, cmdName, args) with next()
\* answering `first`.
InterceptActionRuns(d, st, c, t, elementId, first) ==
  LET actualId == ResolveId(c, elementId)
      obs == [NoCall EXCEPT !.op = "action", !.elementId = elementId,
                            !.actualId = actualId, !.first = first,
                            !.nextCalls = 1,
                            !.invoked = <<FirstAttemptId(elementId, actualId)>>]
  IN IF first.kind = "ok"
     THEN { Run(st, c, t, [obs EXCEPT !.outcome = first]) }
     ELSE IF ~IsStaleElementException(first.error)
     THEN { Run(st, c, t, [obs EXCEPT !.outcome = first]) }
     ELSE UNION { Recover(d, p, c, obs) : p \in CheckWatchersRuns(d, st, t) }

\* plugin.stores and plugin.caches are the Maps keyed by driver.sessionId.
NewPlugin == [stores |-> <<>>, caches |-> <<>>]

\* No lookup is suspended.
NoFlight == [at |-> None]

\* ================================================================ actions
Init ==
  /\ store = NewStore
  /\ cache = NewCache
  /\ now = 0
  /\ last = NoCall
  /\ plugin = NewPlugin
  /\ flight = NoFlight
  /\ ended = {}

\* mobile: registerUIWatcher
RegisterUIWatcher(params) ==
  \E p \in params :
    /\ store' = Add(store, p, now).store
    /\ UNCHANGED <<cache, now, last, plugin, flight, ended>>

\* mobile: unregisterUIWatcher
UnregisterUIWatcher ==
  \E name \in WatcherNames :
    /\ HasWatcher(store, name)
    /\ store' = Remove(store, name)
    /\ UNCHANGED <<cache, now, last, plugin, flight, ended>>

\* mobile: clearAllUIWatchers
ClearAllUIWatchers ==
  /\ store' = Clear(store)
  /\ UNCHANGED <<cache, now, last, plugin, flight, ended>>

\* mobile: listUIWatchers (prunes the expired watchers)
ListUIWatchers ==
  /\ store' = GetActiveWatchers(store, now).store
  /\ UNCHANGED <<cache, now, last, plugin, flight, ended>>

\* mobile: disableUIWatchers
DisableUIWatchers ==
  /\ store' = Disable(store)
  /\ UNCHANGED <<cache, now, last, plugin, flight, ended>>

\* mobile: enableUIWatchers
EnableUIWatchers ==
  /\ store' = Enable(store)
  /\ UNCHANGED <<cache, now, last, plugin, flight, ended>>

\* Time passes between two commands.
Tick ==
  /\ now < MaxTime
  /\ now' = now + 1
  /\ UNCHANGED <<store, cache, last, plugin, flight, ended>>

\* An intercepted call ran as r.
Commit(r) ==
  /\ r.now <= MaxTime
  /\ store' = r.store
  /\ cache' = r.cache
  /\ now' = r.now
  /\ last' = [r.obs EXCEPT !.seq = last.seq + 1]
  /\ UNCHANGED <<plugin, flight, ended>>

\* The client calls findElement; firsts is what the first attempt may
\* answer, d what the driver answers afterwards, d.calls the calls observed.
FindElement(d, values, firsts) ==
  /\ last.seq < d.calls
  /\ \E v \in values, first \in firsts :
    \E r \in FindElementRuns(d, store, cache, now, Locator(v), first) : Commit(r)

\* The client calls findElements.
FindElements(d, values, firsts) ==
  /\ last.seq < d.calls
  /\ \E v \in values, first \in firsts :
    \E r \in FindElementsRuns(d, store, cache, now, Locator(v), first) : Commit(r)

\* The client calls an element command (click, getText, ...).
ElementAction(d, ids, firsts) ==
  /\ last.seq < d.calls
  /\ \E id \in ids, first \in firsts :
    \E r \in InterceptActionRuns(d, store, cache, now, id, first) : Commit(r)

\* --------------------------------------------- the mobile: commands' replies
\* What a command answers to the client: a result or an error.
Rejected(message) == [kind |-> "error", message |-> message]

\* A validation that accepts every duration above 0.
NeverTooLong(p) == FALSE

DurationTooLong(p) == p.duration > MaxDurationMs

\* name.trim(), for the names of the model.
Trim(name) == IF name = " " THEN "" ELSE name

\* validateWatcherParams: the message of the first rule that fails, None
\* when the parameters are valid.  Of the rules, those on the name, the
\* duration and the cooldown are modelled; the values have the types the
\* rules ask for and the locators are valid.
ValidateWatcherParams(p) ==
  IF "name" \notin DOMAIN p \/ p.name = "" THEN "UIWatcher name is required"
  ELSE IF Trim(p.name) = "" THEN "UIWatcher name is empty"
  ELSE IF "duration" \notin DOMAIN p THEN "UIWatcher duration is required"
  ELSE IF p.duration <= 0 THEN "UIWatcher duration must be a positive number"
  ELSE IF DurationTooLong(p) THEN "UIWatcher duration must be <= 60 seconds"
  ELSE IF "cooldownMs" \in DOMAIN p /\ p.cooldownMs < 0
  THEN "UIWatcher cooldownMs must be >= 0"
  ELSE None

\* A registration that stores the watcher before it validates the
\* parameters.
RegisterThenValidate(st, p, t) ==
  LET a == Add(st, p, t)
      invalid == ValidateWatcherParams(p)
  IN IF invalid # None THEN [store |-> a.store, reply |-> Rejected(invalid)]
     ELSE IF a.error # None
     THEN [store |-> a.store, reply |-> Rejected(a.error)]
     ELSE [store |-> a.store,
           reply |-> [kind |-> "ok",
                      watcher |-> [name |-> p.name,
                                   priority |-> OrDefault(p, "priority", 0),
                                   registeredAt |-> t,
                                   expiresAt |-> t + p.duration,
                                   status |-> "active"]]]

\* registerUIWatcher(store, params): [store, reply].
RegisterUIWatcherReply(st, p, t) ==
  LET invalid == ValidateWatcherParams(p) IN
  IF invalid # None THEN [store |-> st, reply |-> Rejected(invalid)]
  ELSE LET a == Add(st, p, t) IN
       IF a.error # None
       THEN [store |-> a.store, reply |-> Rejected(a.error)]
       ELSE LET w == GetWatcher(a.store, p.name)
            IN [store |-> a.store,
                reply |-> [kind |-> "ok",
                           watcher |-> [name |-> w.name,
                                        priority |-> w.priority,
                                        registeredAt |-> w.registeredAt,
                                        expiresAt |-> w.expiresAt,
                                        status |-> w.status]]]

\* unregisterUIWatcher(store, name): [store, reply].
UnregisterUIWatcherReply(st, name) ==
  IF name = "" THEN [store |-> st, reply |-> Rejected("UIWatcher name is required")]
  ELSE IF ~HasWatcher(st, name)
  THEN [store |-> st, reply |-> Rejected("NotFound")]
  ELSE [store |-> Remove(st, name), reply |-> [kind |-> "ok", removed |-> name]]

\* clearAllUIWatchers(store): the count is the size of the Map.
ClearAllUIWatchersReply(st) ==
  [store |-> Clear(st),
   reply |-> [kind |-> "ok", removedCount |-> Len(st.watchers)]]

\* listUIWatchers(store)
ListUIWatchersReply(st, t) ==
  LET g == GetActiveWatchers(st, t)
  IN [store |-> g.store,
      reply |-> [kind |-> "ok", watchers |-> g.active,
                 totalCount |-> Len(g.active)]]

\* A command ran as r; what the client sent and received is observed.
Answer(op, params, r) ==
  /\ store' = r.store
  /\ last' = [NoCall EXCEPT !.seq = last.seq + 1, !.op = op,
                            !.params = params, !.reply = r.reply]
  /\ UNCHANGED <<cache, now, plugin, flight, ended>>

\* execute('mobile: registerUIWatcher', params), observed at most `budget`
\* times with the other commands.
ExecuteRegisterUIWatcher(budget, params) ==
  /\ last.seq < budget
  /\ \E p \in params :
       Answer("registerUIWatcher", p, RegisterUIWatcherReply(store, p, now))

\* execute('mobile: unregisterUIWatcher', {name})
ExecuteUnregisterUIWatcher(budget, names) ==
  /\ last.seq < budget
  /\ \E name \in names :
       Answer("unregisterUIWatcher", [name |-> name],
              UnregisterUIWatcherReply(store, name))

\* execute('mobile: clearAllUIWatchers')
ExecuteClearAllUIWatchers(budget) ==
  /\ last.seq < budget
  /\ Answer("clearAllUIWatchers", NoAnswer, ClearAllUIWatchersReply(store))

\* execute('mobile: listUIWatchers')
ExecuteListUIWatchers(budget) ==
  /\ last.seq < budget
  /\ Answer("listUIWatchers", NoAnswer, ListUIWatchersReply(store, now))

\* ================================================ the plugin's sessions
\* A plugin that keeps everything under one key.
OneKey(s) == "s1"

\* The key of a session in the two Maps.
SessionKey(s) == s

\* getStore(driver), getCache(driver): the plugin after the entry of the
\* session was created if it was missing.
GetStore(pl, s) ==
  IF SessionKey(s) \in DOMAIN pl.stores THEN pl
  ELSE [pl EXCEPT !.stores = MapSet(@, SessionKey(s), NewStore)]

GetCache(pl, s) ==
  IF SessionKey(s) \in DOMAIN pl.caches THEN pl
  ELSE [pl EXCEPT !.caches = MapSet(@, SessionKey(s), NewCache)]

\* The store or cache object of the session was changed in place.
PutStore(pl, s, st) == [pl EXCEPT !.stores = MapSet(@, SessionKey(s), st)]

PutCache(pl, s, c) == [pl EXCEPT !.caches = MapSet(@, SessionKey(s), c)]

\* A teardown that leaves the cache of the session in the Map.
DropStoreOnly(pl, s) == [pl EXCEPT !.stores = MapDelete(@, SessionKey(s))]

\* stores.delete(sessionId); caches.get(sessionId).clear();
\* caches.delete(sessionId)
DropSession(pl, s) ==
  [stores |-> MapDelete(pl.stores, SessionKey(s)),
   caches |-> MapDelete(pl.caches, SessionKey(s))]

\* A step of session s is observed.
Observe(s, op, reply) ==
  last' = [NoCall EXCEPT !.seq = last.seq + 1, !.op = op, !.session = s,
                         !.params = [before |-> plugin], !.reply = reply]

\* The store object a suspended pass holds is no longer in the Map once
\* its session is torn down; the pass goes on with the object.
Orphaned(f, pl, s) ==
  IF f.at \in {"pass", "retry"} /\ f.session = s /\ f.live
  THEN [f EXCEPT !.live = FALSE, !.store = pl.stores[SessionKey(s)]]
  ELSE f

\* execute('mobile: registerUIWatcher', params) on a session that is open.
SessionRegister(sessions, params) ==
  /\ last.seq < MaxSessionSteps
  /\ \E s \in sessions \ ended : \E p \in params :
       LET pl == GetStore(plugin, s)
           r == RegisterUIWatcherReply(pl.stores[SessionKey(s)], p, now)
       IN /\ plugin' = PutStore(pl, s, r.store)
          /\ Observe(s, "registerUIWatcher", r.reply)
  /\ UNCHANGED <<store, cache, now, flight, ended>>

\* findElement is called on an open session and suspends in next().
BeginFindElement(sessions) ==
  /\ last.seq < MaxSessionSteps
  /\ flight = NoFlight
  /\ \E s \in sessions \ ended :
       /\ flight' = [at |-> "next", session |-> s, live |-> FALSE,
                     store |-> NewStore]
       /\ Observe(s, "findElement", NoAnswer)
  /\ UNCHANGED <<store, cache, now, plugin, ended>>

\* Whether driver.sessionId still names the session: it does while the
\* session is open; after the teardown the driver may have cleared it.
SessionIdKnown(s) == IF s \in ended THEN BOOLEAN ELSE {TRUE}

\* The first next() of the suspended findElement settles: a found element
\* is cached (getCache), a failure fetches the store (getStore) and
\* suspends in checkWatchers; without a session id getCache and getStore
\* throw and the call ends.
ResumeNext(firsts) ==
  /\ last.seq < MaxSessionSteps
  /\ flight.at = "next"
  /\ \E first \in firsts : \E known \in SessionIdKnown(flight.session) :
       LET s == flight.session IN
       IF ~known
       THEN /\ plugin' = plugin
            /\ flight' = NoFlight
            /\ Observe(s, "findElement", Rejected("No session ID available"))
       ELSE IF first.kind = "ok"
       THEN LET pl == GetCache(plugin, s)
            IN /\ plugin' = PutCache(pl, s,
                               CacheElement(pl.caches[SessionKey(s)],
                                            first.element, "id", "a", now))
               /\ flight' = NoFlight
               /\ Observe(s, "findElement", first)
       ELSE /\ plugin' = GetStore(plugin, s)
            /\ flight' = [flight EXCEPT !.at = "pass", !.live = TRUE]
            /\ Observe(s, "checkWatchers", NoAnswer)
  /\ UNCHANGED <<store, cache, now, ended>>

\* checkWatchers of the suspended findElement runs, cooldown waits
\* included, on the store object the call holds, and the call suspends in
\* the retry.
ResumePass(d) ==
  /\ last.seq < MaxSessionSteps
  /\ flight.at = "pass"
  /\ LET s == flight.session
         st == IF flight.live THEN plugin.stores[SessionKey(s)]
               ELSE flight.store
     IN \E p \in CheckWatchersRuns(d, st, now) :
          /\ p.now <= MaxTime
          /\ now' = p.now
          /\ plugin' = IF flight.live THEN PutStore(plugin, s, p.store)
                       ELSE plugin
          /\ flight' = [flight EXCEPT !.at = "retry",
                                      !.store = IF flight.live THEN @
                                                ELSE p.store]
          /\ Observe(s, "next", NoAnswer)
  /\ UNCHANGED <<store, cache, ended>>

\* The retry of the suspended findElement settles and the call ends.
ResumeRetry(retries) ==
  /\ last.seq < MaxSessionSteps
  /\ flight.at = "retry"
  /\ \E retry \in retries : \E known \in SessionIdKnown(flight.session) :
       LET s == flight.session IN
       /\ flight' = NoFlight
       /\ IF retry.kind = "ok" /\ known
          THEN LET pl == GetCache(plugin, s)
               IN /\ plugin' = PutCache(pl, s,
                                  CacheElement(pl.caches[SessionKey(s)],
                                               retry.element, "id", "a", now))
                  /\ Observe(s, "findElement", retry)
          ELSE /\ plugin' = plugin
               /\ Observe(s, "findElement",
                          Failure(NoSuchElement, "first"))
  /\ UNCHANGED <<store, cache, now, ended>>

\* deleteSession: next() first; when it resolves the store and the cache
\* of the session are deleted, when it rejects nothing is.
DeleteSession(sessions) ==
  /\ last.seq < MaxSessionSteps
  /\ \E s \in sessions \ ended : \E resolved \in BOOLEAN :
       IF resolved
       THEN /\ plugin' = DropSession(plugin, s)
            /\ flight' = Orphaned(flight, plugin, s)
            /\ ended' = ended \cup {s}
            /\ Observe(s, "deleteSession", [kind |-> "ok"])
       ELSE /\ UNCHANGED <<plugin, flight, ended>>
            /\ Observe(s, "deleteSession", Rejected("deleteSession failed"))
  /\ UNCHANGED <<store, cache, now>>

\* onUnexpectedShutdown(driver, cause)
OnUnexpectedShutdown(sessions) ==
  /\ last.seq < MaxSessionSteps
  /\ \E s \in sessions \ ended :
       /\ plugin' = DropSession(plugin, s)
       /\ flight' = Orphaned(flight, plugin, s)
       /\ ended' = ended \cup {s}
       /\ Observe(s, "onUnexpectedShutdown", [kind |-> "ok"])
  /\ UNCHANGED <<store, cache, now>>

\* ------------------------------------------------- the main specification
\* The three intercepted commands with one registered watcher.
WatcherParams ==
  { [name |-> "w1", priority |-> 0, duration |-> 2, stopOnFound |-> FALSE,
     cooldownMs |-> 1] }

Driver ==
  [calls |-> MaxCalls,
   watcher |-> WatcherAnswers,
   findElement |-> FindElementAnswers({"e1", "e2"}, {NoSuchElement}, "later"),
   findElements |-> FindElementsAnswers(ElementLists, {NoSuchElement}, "later"),
   command |-> CommandAnswers({StaleElement}, "later")]

FirstFindElementAnswers ==
  FindElementAnswers({"e1", "e2"}, {NoSuchElement, StaleElement, Timeout}, "first")

FirstFindElementsAnswers ==
  FindElementsAnswers(ElementLists, {NoSuchElement}, "first")

FirstCommandAnswers ==
  CommandAnswers({StaleElement, StaleMessage, NoSuchElement}, "first")

Next ==
  \/ RegisterUIWatcher(WatcherParams)
  \/ DisableUIWatchers
  \/ EnableUIWatchers
  \/ Tick
  \/ FindElement(Driver, {"a"}, FirstFindElementAnswers)
  \/ FindElements(Driver, {"b"}, FirstFindElementsAnswers)
  \/ ElementAction(Driver, ElementIds, FirstCommandAnswers)

Spec == Init /\ [][Next]_vars

\* --------------------------------------- recovery, then the same id again
\* A longer session about one element: it is found, goes stale, is
\* recovered by a watcher that always fires, and is used again.
RecoveryParams ==
  { [name |-> "w1", priority |-> 0, duration |-> 3, stopOnFound |-> FALSE,
     cooldownMs |-> 0] }

RecoveryDriver ==
  [calls |-> MaxRecoveryCalls,
   watcher |-> {"clicked"},
   findElement |-> {Found("e2"), Found("e3")},
   findElements |-> {FoundMany(<<"e2", "e3">>)},
   command |-> CommandAnswers({StaleElement}, "later")]

\* The first answers of the session: the lookups find e1 and e2, and every
\* element command finds its element stale.
RecoveryFound == {Found("e1")}

RecoveryFoundMany == {FoundMany(<<"e1", "e2">>)}

RecoveryStale == CommandAnswers({StaleElement}, "first")

NextRecovery ==
  \/ RegisterUIWatcher(RecoveryParams)
  \/ Tick
  \/ FindElement(RecoveryDriver, {"a"}, RecoveryFound)
  \/ FindElements(RecoveryDriver, {"b"}, RecoveryFoundMany)
  \/ ElementAction(RecoveryDriver, {"e1", "e2"}, RecoveryStale)

SpecRecovery == Init /\ [][NextRecovery]_vars

\* ------------------------------------------------ the registry and a pass
\* Several watchers are registered, removed and expire, in every order; the
\* lookups all fail at first, so that each of them runs a pass, in which
\* every watcher that is looked for fires.
RegistryParams ==
  { [name |-> n, priority |-> p, duration |-> 2, stopOnFound |-> s,
     cooldownMs |-> 0] : n \in WatcherNames, p \in Priorities, s \in {FALSE} }

RegistryDriver ==
  [calls |-> MaxRegistryCalls,
   watcher |-> {"clicked"},
   findElement |-> {Failure(NoSuchElement, "later")},
   findElements |-> {FoundMany(<<>>)},
   command |-> {Done("later")}]

\* The first attempt of every lookup finds nothing.
FirstLookupFails == {Failure(NoSuchElement, "first")}

NextRegistry ==
  \/ RegisterUIWatcher(RegistryParams)
  \/ UnregisterUIWatcher
  \/ ClearAllUIWatchers
  \/ ListUIWatchers
  \/ DisableUIWatchers
  \/ EnableUIWatchers
  \/ Tick
  \/ FindElement(RegistryDriver, {"a"}, FirstLookupFails)

SpecRegistry == Init /\ [][NextRegistry]_vars

\* ------------------------------------------------------- passes in a row
\* Three watchers, one of which stops when found; in a pass each of them is
\* not on screen, fails to click or fires.
PassParams ==
  { [name |-> "w1", priority |-> 1, duration |-> 3, stopOnFound |-> TRUE,
     cooldownMs |-> 1],
    [name |-> "w2", priority |-> 0, duration |-> 3, stopOnFound |-> FALSE,
     cooldownMs |-> 1],
    [name |-> "w3", priority |-> 0, duration |-> 3, stopOnFound |-> FALSE,
     cooldownMs |-> 1] }

PassDriver ==
  [calls |-> MaxPassCalls,
   watcher |-> {"referenceNotFound", "clickFailed", "clicked"},
   findElement |-> {Failure(NoSuchElement, "later")},
   findElements |-> {FoundMany(<<>>)},
   command |-> {Done("later")}]

NextPass ==
  \/ RegisterUIWatcher(PassParams)
  \/ Tick
  \/ FindElement(PassDriver, {"a"}, FirstLookupFails)

SpecPass == Init /\ [][NextPass]_vars

\* --------------------------------------------------- the registry commands
\* The client registers two names, with and without the optional
\* parameters, with valid and invalid parameters, and unregisters, clears
\* and lists while the watchers expire.
ValidParams ==
  UNION { { [name |-> n, duration |-> 1],
            [name |-> n, duration |-> MaxDurationMs, priority |-> 1,
             stopOnFound |-> TRUE, cooldownMs |-> 1] }
          : n \in {"w1", "w2"} }

InvalidParams ==
  { [name |-> "", duration |-> 1],
    [name |-> " ", duration |-> 1],
    [name |-> "w1"],
    [name |-> "w1", duration |-> 0],
    [name |-> "w1", duration |-> MaxDurationMs + 1],
    [name |-> "w1", duration |-> 1, cooldownMs |-> -1] }

CommandDriver ==
  [calls |-> MaxCommands,
   watcher |-> {"referenceNotFound"},
   findElement |-> {Failure(NoSuchElement, "later")},
   findElements |-> {FoundMany(<<>>)},
   command |-> {Done("later")}]

CommandParams == ValidParams \cup InvalidParams

NextCommands ==
  \/ ExecuteRegisterUIWatcher(MaxCommands, CommandParams)
  \/ ExecuteUnregisterUIWatcher(MaxCommands, WatcherNames)
  \/ ExecuteClearAllUIWatchers(MaxCommands)
  \/ ExecuteListUIWatchers(MaxCommands)
  \/ Tick
  \/ FindElement(CommandDriver, {"a"}, FirstLookupFails)

SpecCommands == Init /\ [][NextCommands]_vars

\* ------------------------------------------------------ a registry that fills
\* The client registers watchers under the first name of CapacityNames
\* that the registry does not hold, for a short or the longest duration,
\* tries the name c1 again, sends an invalid duration, unregisters c1, and
\* disables and enables the watchers, while the watchers expire.
CapacityNames == <<"c1", "c2", "c3", "c4", "c5", "c6">>

UnusedName(st) ==
  CapacityNames[CHOOSE i \in 1..Len(CapacityNames) :
                  /\ CapacityNames[i] \notin { st.watchers[k].name : k \in 1..Len(st.watchers) }
                  /\ \A j \in 1..(i - 1) :
                       CapacityNames[j] \in { st.watchers[k].name : k \in 1..Len(st.watchers) }]

CapacityParams ==
  { [name |-> UnusedName(store), duration |-> d] : d \in {1, MaxDurationMs} }
    \cup { [name |-> "c1", duration |-> 1], [name |-> "c1", duration |-> 0] }

NextCapacity ==
  \/ ExecuteRegisterUIWatcher(MaxCapacityCommands, CapacityParams)
  \/ ExecuteUnregisterUIWatcher(MaxCapacityCommands, {"c1"})
  \/ DisableUIWatchers
  \/ EnableUIWatchers
  \/ Tick

SpecCapacity == Init /\ [][NextCapacity]_vars

\* ------------------------------------------------------- the cache alone
\* The cache is called directly: elements found by the locator "a" are
\* cached, looked up and swept while the clock advances.  There is one
\* element id more than the largest cache the bounds allow.
CacheIds == {"e1", "e2", "e3", "e4"}

\* A call on the cache returned reply and left the cache as c; the
\* observation keeps the cache as it was before the call.
CacheAnswer(op, id, c, reply) ==
  /\ cache' = c
  /\ last' = [NoCall EXCEPT !.seq = last.seq + 1, !.op = op,
                            !.elementId = id, !.params = [before |-> cache],
                            !.reply = reply]
  /\ UNCHANGED <<store, now, plugin, flight, ended>>

\* cache.cacheElement(id, "id", "a")
CallCacheElement(ids) ==
  /\ last.seq < MaxCacheCalls
  /\ \E id \in ids :
       CacheAnswer("cacheElement", id, CacheElement(cache, id, "id", "a", now),
                   NoAnswer)

\* cache.getRef(id)
CallGetRef(ids) ==
  /\ last.seq < MaxCacheCalls
  /\ \E id \in ids :
       LET g == GetRef(cache, id, now)
       IN CacheAnswer("getRef", id, g.cache,
                      IF g.found THEN [kind |-> "ok", ref |-> g.ref]
                      ELSE NoAnswer)

\* cache.cleanup()
CallCleanup ==
  /\ last.seq < MaxCacheCalls
  /\ CacheAnswer("cleanup", None, Cleanup(cache, now), NoAnswer)

\* Time passes between two calls on the cache.
CacheTick ==
  /\ now < MaxCacheTime
  /\ now' = now + 1
  /\ UNCHANGED <<store, cache, last, plugin, flight, ended>>

NextCache ==
  \/ CallCacheElement(CacheIds)
  \/ CallGetRef(CacheIds)
  \/ CallCleanup
  \/ CacheTick

SpecCache == Init /\ [][NextCache]_vars

\* ------------------------------------------------------ the id mappings
\* Mappings are recorded directly, between any two of three ids.
MappingIds == {"e1", "e2", "e3"}

\* cache.setMapping(oldId, newId)
CallSetMapping(ids) ==
  /\ last.seq < MaxMappingCalls
  /\ \E oldId \in ids, newId \in ids :
       /\ cache' = SetMapping(cache, oldId, newId)
       /\ last' = [NoCall EXCEPT !.seq = last.seq + 1, !.op = "setMapping",
                                 !.elementId = oldId, !.newId = newId,
                                 !.params = [before |-> cache]]
       /\ UNCHANGED <<store, now, plugin, flight, ended>>

NextMapping == CallSetMapping(MappingIds)

SpecMapping == Init /\ [][NextMapping]_vars

\* ------------------------------------------- the whole cache interface
\* cache.cacheElements(elements, using, value)
CallCacheElements(lists) ==
  /\ last.seq < MaxCacheCalls
  /\ \E elements \in lists :
       CacheAnswer("cacheElements", None,
                   CacheElements(cache, elements, "id", "b", now), NoAnswer)

\* cache.clear()
CallClear ==
  /\ last.seq < MaxCacheCalls
  /\ CacheAnswer("clear", None, ClearCache(cache), NoAnswer)

\* Entries are recorded one by one and as lists longer than the cache,
\* looked up, swept and cleared, and ids are remapped, while they age.
InterfaceIds == {"e1", "e2", "e3"}

InterfaceLists == {<<"e1", "e2">>, <<"e3", "e1", "e2">>}

InterfaceMappingIds == {"e1", "e2"}

NextCacheInterface ==
  \/ CallCacheElement(InterfaceIds)
  \/ CallCacheElements(InterfaceLists)
  \/ CallGetRef(InterfaceIds)
  \/ CallCleanup
  \/ CallClear
  \/ CallSetMapping(InterfaceMappingIds)
  \/ CacheTick

SpecCacheInterface == Init /\ [][NextCacheInterface]_vars

\* ------------------------------------------------- stale re-location
\* An element command whose first attempt answers `first`, in which the
\* driver answers a findElement of the recovery with `single` and a
\* findElements with `many`; the observation keeps both answers and the
\* cache before the call.
RelocatingAction(d, ids, firsts, singles, lists) ==
  /\ last.seq < d.calls
  /\ \E id \in ids, first \in firsts, single \in singles, many \in lists :
       \E r \in InterceptActionRuns(
                  [d EXCEPT !.findElement = {single}, !.findElements = {many}],
                  store, cache, now, id, first) :
         Commit([r EXCEPT !.obs.params =
                   [before |-> cache, findElement |-> single,
                    findElements |-> many]])

\* One element is cached by findElement and two by findElements; a watcher
\* that fires or is not on screen is registered; every element command
\* finds its element stale, and the re-location finds an element, fails,
\* or finds a list of zero, one or two elements.
RelocateDriver ==
  [calls |-> MaxRelocateCalls,
   watcher |-> {"referenceNotFound", "clicked"},
   findElement |-> {Found("e3")},
   findElements |-> {FoundMany(<<"e3">>)},
   command |-> CommandAnswers({StaleElement}, "later")]

RelocateIds == {"e1", "e2"}

RelocateSingles ==
  {Found("e3"), Failure(NoSuchElement, "later"), Failure(StaleElement, "later")}

RelocateLists ==
  {FoundMany(<<>>), FoundMany(<<"e3">>), FoundMany(<<"e3", "e1">>),
   Failure(NoSuchElement, "later")}

RelocateFound == {Found("e1")}

RelocateFoundMany == {FoundMany(<<"e2">>), FoundMany(<<"e1", "e2">>)}

RelocateValueA == {"a"}

RelocateValueB == {"b"}

NextRelocate ==
  \/ RegisterUIWatcher(RecoveryParams)
  \/ FindElement(RelocateDriver, RelocateValueA, RelocateFound)
  \/ FindElements(RelocateDriver, RelocateValueB, RelocateFoundMany)
  \/ RelocatingAction(RelocateDriver, RelocateIds, RecoveryStale,
                      RelocateSingles, RelocateLists)

SpecRelocate == Init /\ [][NextRelocate]_vars

\* ------------------------------------------------- trigger statistics
\* checkWatchers(driver, store) in which the driver answers each watcher
\* of the snapshot as answers[name]; the observation keeps the store and
\* the time before the pass and the answers.
CallCheckWatchers(d) ==
  /\ last.seq < d.calls
  /\ \E answers \in [SnapshotNames(store, now) -> d.watcher] :
       LET p == CheckWatchers(store, now, answers)
       IN /\ p.now <= MaxTime
          /\ store' = p.store
          /\ now' = p.now
          /\ last' = [NoCall EXCEPT
                        !.seq = last.seq + 1, !.op = "checkWatchers",
                        !.triggered = p.triggered, !.passLog = p.log,
                        !.params = [before |-> store, at |-> now,
                                    answers |-> answers]]
  /\ UNCHANGED <<cache, plugin, flight, ended>>

\* Two watchers, one of which stops when found and waits after it fired,
\* are registered, unregistered, listed, checked with every answer of the
\* driver, and the store is disabled and enabled; time passes in the
\* cooldown waits.
TriggerParams ==
  { [name |-> "w1", priority |-> 1, duration |-> MaxDurationMs,
     stopOnFound |-> TRUE, cooldownMs |-> 1],
    [name |-> "w2", duration |-> MaxDurationMs] }

TriggerDriver ==
  [calls |-> MaxTriggerCalls,
   watcher |-> WatcherAnswers,
   findElement |-> {Failure(NoSuchElement, "later")},
   findElements |-> {FoundMany(<<>>)},
   command |-> {Done("later")}]

FoundAtOnce == {Found("e1")}

TriggerValues == {"a"}

NextTriggers ==
  \/ RegisterUIWatcher(TriggerParams)
  \/ UnregisterUIWatcher
  \/ ListUIWatchers
  \/ DisableUIWatchers
  \/ EnableUIWatchers
  \/ CallCheckWatchers(TriggerDriver)
  \/ FindElement(TriggerDriver, TriggerValues, FoundAtOnce)

SpecTriggers == Init /\ [][NextTriggers]_vars

\* ------------------------------------------------- expiry during a pass
\* A watcher that waits after it fired is checked before a watcher of
\* lower priority that lives no longer than that wait.
ExpiryParams ==
  { [name |-> "w1", priority |-> 1, duration |-> 2, cooldownMs |-> 1],
    [name |-> "w2", duration |-> 1] }

ExpiryDriver ==
  [calls |-> MaxExpiryCalls,
   watcher |-> {"referenceNotFound", "clicked"},
   findElement |-> {Failure(NoSuchElement, "later")},
   findElements |-> {FoundMany(<<>>)},
   command |-> {Done("later")}]

NextExpiry ==
  \/ RegisterUIWatcher(ExpiryParams)
  \/ UnregisterUIWatcher
  \/ Tick
  \/ CallCheckWatchers(ExpiryDriver)

SpecExpiry == Init /\ [][NextExpiry]_vars

\* ------------------------------------------------- overlapping passes
\* Two intercepted calls of one session run checkWatchers at the same
\* time.  flight.passes[k] is the pass of call k: the snapshot it iterates
\* over, the watcher it is at, and where it is suspended ("idle": about to
\* test the status of the watcher, "driver": in the driver calls for it,
\* "cooldown": in the wait after it fired, "done").
OverlapCalls == {"k1", "k2"}

Passes == IF flight.at = "overlap" THEN flight.passes ELSE <<>>

SetPass(k, pass) == flight' = [at |-> "overlap", passes |-> MapSet(Passes, k, pass)]

\* The pass goes on to the next watcher of its snapshot.
NextWatcher(pass) ==
  [pass EXCEPT !.i = @ + 1,
               !.phase = IF pass.i + 1 > Len(pass.watchers) THEN "done"
                         ELSE "idle"]

\* checkWatchers is entered: the enabled flag is read and the snapshot of
\* the unexpired watchers, sorted, is taken.
BeginPass(calls) ==
  \E k \in calls \ DOMAIN Passes :
    /\ IF ~IsEnabled(store)
       THEN /\ SetPass(k, [watchers |-> <<>>, i |-> 1, phase |-> "done",
                           due |-> 0])
            /\ store' = store
       ELSE LET g == GetSortedWatchers(store, now)
            IN /\ SetPass(k, [watchers |-> g.sorted, i |-> 1,
                              phase |-> IF Len(g.sorted) = 0 THEN "done"
                                        ELSE "idle",
                              due |-> 0])
               /\ store' = g.store
    /\ UNCHANGED <<cache, now, last, plugin, ended>>

\* The status of the watcher object the snapshot refers to, as it is now.
LiveStatus(w) ==
  IF HasWatcher(store, w.name) THEN GetWatcher(store, w.name).status
  ELSE w.status

\* The loop of a pass tests the status of its next watcher and, unless it
\* is inactive, calls the driver for it and is suspended.
PassLocate(calls) ==
  \E k \in calls \cap DOMAIN Passes :
    LET pass == Passes[k] IN
    /\ pass.phase = "idle"
    /\ SetPass(k, IF LiveStatus(pass.watchers[pass.i]) = "inactive"
                  THEN NextWatcher(pass)
                  ELSE [pass EXCEPT !.phase = "driver"])
    /\ UNCHANGED <<store, cache, now, last, plugin, ended>>

\* The driver calls for the watcher of a suspended pass are answered:
\* after a click that succeeded the watcher is counted, marked inactive
\* when it has stopOnFound, and the pass waits its cooldown.
PassAnswer(calls, answers) ==
  \E k \in calls \cap DOMAIN Passes : \E answer \in answers :
    LET pass == Passes[k]
        w == pass.watchers[pass.i]
        s1 == IncrementTriggerCount(store, w.name, now)
        s2 == IF w.stopOnFound THEN MarkInactive(s1, w.name) ELSE s1
    IN /\ pass.phase = "driver"
       /\ IF answer = "clicked"
          THEN /\ store' = s2
               /\ SetPass(k, IF w.cooldownMs > 0
                             THEN [pass EXCEPT !.phase = "cooldown",
                                               !.due = now + w.cooldownMs]
                             ELSE NextWatcher(pass))
          ELSE /\ store' = store
               /\ SetPass(k, NextWatcher(pass))
       /\ UNCHANGED <<cache, now, last, plugin, ended>>

\* The cooldown wait of a suspended pass is over.
PassCooldownOver(calls) ==
  \E k \in calls \cap DOMAIN Passes :
    LET pass == Passes[k] IN
    /\ pass.phase = "cooldown"
    /\ pass.due <= MaxTime
    /\ now' = IF now < pass.due THEN pass.due ELSE now
    /\ SetPass(k, NextWatcher(pass))
    /\ UNCHANGED <<store, cache, last, plugin, ended>>

OverlapParams ==
  { [name |-> "w1", priority |-> 1, duration |-> MaxDurationMs,
     stopOnFound |-> TRUE, cooldownMs |-> 1],
    [name |-> "w2", duration |-> MaxDurationMs] }

NextOverlap ==
  \/ RegisterUIWatcher(OverlapParams)
  \/ BeginPass(OverlapCalls)
  \/ PassLocate(OverlapCalls)
  \/ PassAnswer(OverlapCalls, WatcherAnswers)
  \/ PassCooldownOver(OverlapCalls)

SpecOverlap == Init /\ [][NextOverlap]_vars

\* ------------------------------------------------- elements on the wire
\* An element the driver answers is an object that carries its id under
\* the W3C key, under ELEMENT, or under both.
W3C_ELEMENT_KEY == "element-6066-11e4-a52e-4f735466cecf"

W3CElement(id) == [k \in {W3C_ELEMENT_KEY} |-> id]

FlatElement(id) == [ELEMENT |-> id]

BothElement(id) == [k \in {W3C_ELEMENT_KEY, "ELEMENT"} |-> id]

\* extractElementId(element): the W3C key first, then ELEMENT, else
\* undefined.
ExtractElementId(element) ==
  IF W3C_ELEMENT_KEY \in DOMAIN element THEN element[W3C_ELEMENT_KEY]
  ELSE IF "ELEMENT" \in DOMAIN element THEN element.ELEMENT
  ELSE None

\* What checkWatchers passes to driver.click:
\* actionElement.ELEMENT || actionElement.
ClickArgument(actionElement) ==
  IF "ELEMENT" \in DOMAIN actionElement
  THEN [kind |-> "id", id |-> actionElement.ELEMENT]
  ELSE [kind |-> "object", element |-> actionElement]

\* findElement whose first attempt answers the element e: the id
\* extractElementId finds is cached; an object without an id is returned
\* uncached.
WireFindElement(d, values, elements) ==
  /\ last.seq < d.calls
  /\ \E v \in values : \E e \in elements :
       IF ExtractElementId(e) = None
       THEN /\ last' = [NoCall EXCEPT !.seq = last.seq + 1,
                                      !.op = "findElement",
                                      !.locator = Locator(v),
                                      !.params = [element |-> e]]
            /\ UNCHANGED <<store, cache, now, plugin, flight, ended>>
       ELSE \E r \in FindElementRuns(d, store, cache, now, Locator(v),
                                    Found(ExtractElementId(e))) :
              Commit([r EXCEPT !.obs.params = [element |-> e]])

\* The ids of a list of elements that all carry one.
ExtractAll(elements) ==
  [i \in 1..Len(elements) |-> ExtractElementId(elements[i])]

\* findElements whose first attempt answers the list of elements.
WireFindElements(d, values, lists) ==
  /\ last.seq < d.calls
  /\ \E v \in values : \E elements \in lists :
       \E r \in FindElementsRuns(d, store, cache, now, Locator(v),
                                FoundMany(ExtractAll(elements))) :
         Commit([r EXCEPT !.obs.params = [elements |-> elements]])

\* checkWatchers in which every watcher checked is on screen and the
\* driver answers its action element as shapes[name]; clicks is what
\* driver.click received for each.
WirePass(d, elements) ==
  /\ last.seq < d.calls
  /\ LET names == SnapshotNames(store, now)
         p == CheckWatchers(store, now, [n \in names |-> "clicked"])
     IN \E shapes \in [names -> elements] :
          /\ p.now <= MaxTime
          /\ store' = p.store
          /\ now' = p.now
          /\ last' = [NoCall EXCEPT
                        !.seq = last.seq + 1, !.op = "checkWatchers",
                        !.triggered = p.triggered,
                        !.params = [actionElements |-> shapes],
                        !.reply = [clicks |-> [n \in names |->
                                                ClickArgument(shapes[n])]]]
  /\ UNCHANGED <<cache, plugin, flight, ended>>

WireParams ==
  { [name |-> "w1", duration |-> MaxDurationMs],
    [name |-> "w2", duration |-> MaxDurationMs, priority |-> 1] }

WireDriver ==
  [calls |-> MaxWireCalls,
   watcher |-> {"clicked"},
   findElement |-> {Found("e1")},
   findElements |-> {FoundMany(<<>>)},
   command |-> {Done("later")}]

WireIds == {"e1", "e2"}

WireElements ==
  UNION { {W3CElement(id), FlatElement(id), BothElement(id)} : id \in WireIds }

WireFound == WireElements \cup { [other |-> "x"] }

WireLists ==
  { <<e>> : e \in WireElements } \cup
  { <<W3CElement("e1"), FlatElement("e2")>>,
    <<FlatElement("e2"), BothElement("e1")>> }

WireValues == {"a"}

NextWire ==
  \/ RegisterUIWatcher(WireParams)
  \/ WireFindElement(WireDriver, WireValues, WireFound)
  \/ WireFindElements(WireDriver, WireValues, WireLists)
  \/ WirePass(WireDriver, WireElements)

SpecWire == Init /\ [][NextWire]_vars

\* ------------------------------------------------------------ two sessions
\* Two sessions register a watcher with a cooldown, look an element up
\* while the other session or a teardown runs in between, and are torn
\* down in both ways.
SessionIds == {"s1", "s2"}

SessionParams ==
  { [name |-> "w1", duration |-> MaxDurationMs, cooldownMs |-> 1] }

SessionDriver ==
  [calls |-> MaxSessionSteps,
   watcher |-> {"referenceNotFound", "clicked"},
   findElement |-> {Found("e1"), Failure(NoSuchElement, "later")},
   findElements |-> {FoundMany(<<>>)},
   command |-> {Done("later")}]

SessionFirstAnswers == {Found("e1"), Failure(NoSuchElement, "first")}

SessionRetryAnswers == {Found("e1"), Failure(NoSuchElement, "later")}

NextSessions ==
  \/ SessionRegister(SessionIds, SessionParams)
  \/ BeginFindElement(SessionIds)
  \/ ResumeNext(SessionFirstAnswers)
  \/ ResumePass(SessionDriver)
  \/ ResumeRetry(SessionRetryAnswers)
  \/ DeleteSession(SessionIds)
  \/ OnUnexpectedShutdown(SessionIds)

SpecSessions == Init /\ [][NextSessions]_vars

\* ============================================================ properties
\* A step is an intercepted call when it adds an observation.
IsCall == last'.seq # last.seq

\* The answer a is a stale-reference failure.
StaleFailure(a) == a.kind = "error" /\ IsStaleElementException(a.error)

\* The cache c holds an entry for id that has not expired at time t.
LiveRef(c, id, t) == id \in DOMAIN c.entries /\ ~IsExpired(c.entries[id], t)

\* The watchers whose reference element a pass looked for, in the order of
\* the lookups.
ReferenceLookups(log) ==
  LET refs == SelectSeq(log, LAMBDA e : e.cmd = "findElement"
                                        /\ e.locator.value[1] = "popup")
  IN [i \in 1..Len(refs) |-> refs[i].locator.value[2]]

NoDuplicates(s) == \A i, j \in 1..Len(s) : s[i] = s[j] => i = j

\* The unexpired watchers of the store st at time t.
Unexpired(st, t) ==
  { st.watchers[i].name : i \in { j \in 1..Len(st.watchers) :
                                    t < st.watchers[j].expiresAt } }

\* C1: when the pass of a failed single lookup, or of an empty or failed
\* multi lookup, returns false, the underlying lookup is not invoked a
\* second time and the caller receives the first attempt's answer.
C1_NoRetryWhenPassReturnsFalse ==
  (last.op \in {"findElement", "findElements"} /\ last.passes = 1
     /\ ~last.triggered)
    => (last.nextCalls = 1 /\ last.outcome = last.first)

\* C2: an intercepted call invokes the underlying operation at most twice
\* and runs at most one pass; the pass looks for each watcher's reference at
\* most once, and at most one re-location is made.
C2_AtMostOneRetryOnePass ==
  /\ last.nextCalls <= 2
  /\ last.passes <= 1
  /\ Len(last.invoked) <= 2
  /\ Len(last.relocations) <= 1
  /\ last.passes = 0 => (last.passLog = <<>> /\ last.nextCalls <= 1)
  /\ NoDuplicates(ReferenceLookups(last.passLog))

\* An element command whose retry failed with a stale reference again.
C2_Witness ==
  /\ last.op = "action"
  /\ last.passes = 1
  /\ last.nextCalls = 2
  /\ last.outcome = Failure(StaleElement, "later")

\* C3: a single lookup that ran a pass either throws the error of its first
\* attempt, or returns the result of its retry, which is then cached under
\* the lookup's strategy and value as a single-result entry.
C3_SingleLookupRetry ==
  [][(IsCall /\ last'.op = "findElement" /\ last'.passes = 1) =>
       /\ last'.outcome.kind = "error" => last'.outcome = last'.first
       /\ last'.outcome.kind = "ok" =>
            /\ last'.nextCalls = 2
            /\ last'.outcome.element \in DOMAIN cache'.entries
            /\ cache'.entries[last'.outcome.element] =
                 [using |-> last'.locator.using, value |-> last'.locator.value,
                  source |-> "findElement", createdAt |-> now']]_vars

\* A single lookup failed, a watcher fired, the retry failed too.
C3_Witness ==
  /\ last.op = "findElement"
  /\ last.passes = 1
  /\ last.triggered
  /\ last.nextCalls = 2
  /\ last.outcome = Failure(NoSuchElement, "first")

\* A multi lookup whose first attempt was empty and whose pass fired.
EmptyThenFired(o) ==
  o.op = "findElements" /\ o.first = FoundMany(<<>>) /\ o.triggered

\* Element i of the result is cached in c with index i - 1.
CachedWithIndex(c, o, i, t) ==
  /\ o.outcome.elements[i] \in DOMAIN c.entries
  /\ c.entries[o.outcome.elements[i]] =
       [using |-> o.locator.using, value |-> o.locator.value, index |-> i - 1,
        source |-> "findElements", createdAt |-> t]

\* C4 (as stated): after an empty first attempt and a fired watcher the
\* multi lookup never raises, and every element of a non-empty retry result
\* is cached with its index.
C4_EveryElementCached ==
  [][(IsCall /\ EmptyThenFired(last')) =>
       /\ last'.outcome.kind = "ok"
       /\ Len(last'.outcome.elements) = 0 => last'.outcome = last'.first
       /\ \A i \in 1..Len(last'.outcome.elements) :
            CachedWithIndex(cache', last', i, now')]_vars

\* C4 (amended): after an empty first attempt and a fired watcher the multi
\* lookup never raises and returns the empty result when the retry fails;
\* of a non-empty retry result the last MaxCacheEntries elements are cached
\* with their index (all of them when the result is not longer than that).
C4_LastElementsCached ==
  [][(IsCall /\ EmptyThenFired(last')) =>
       /\ last'.outcome.kind = "ok"
       /\ Len(last'.outcome.elements) = 0 => last'.outcome = last'.first
       /\ \A i \in 1..Len(last'.outcome.elements) :
            i > Len(last'.outcome.elements) - MaxCacheEntries
              => CachedWithIndex(cache', last', i, now')]_vars

\* The retry answered more elements than the cache holds: the first one is
\* no longer cached.
C4_Witness ==
  /\ EmptyThenFired(last)
  /\ last.outcome = FoundMany(<<"e3", "e1", "e2">>)
  /\ "e3" \notin DOMAIN cache.entries
  /\ {"e1", "e2"} \subseteq DOMAIN cache.entries

\* C5: an element command that fails with a stale reference runs the pass,
\* and every driver call of the pass is made before the re-location; when
\* no watcher fired the first failure is rethrown, nothing is re-located,
\* the cache and its id mappings are left as they were and the command is
\* not run again.  A failure that is not a stale reference is rethrown
\* without a pass.
C5_PassBeforeRecovery ==
  [][(IsCall /\ last'.op = "action" /\ last'.first.kind = "error") =>
       IF StaleFailure(last'.first)
       THEN /\ last'.passes = 1
            /\ \A i \in 1..Len(last'.relocations), k \in 1..Len(last'.passLog) :
                 last'.passLog[k].at <= last'.relocations[i].at
            /\ ~last'.triggered =>
                 /\ last'.outcome = last'.first
                 /\ last'.relocations = <<>>
                 /\ last'.nextCalls = 1
                 /\ Len(last'.invoked) = 1
                 /\ cache' = cache
       ELSE /\ last'.passes = 0
            /\ last'.passLog = <<>>
            /\ last'.outcome = last'.first
            /\ last'.nextCalls = 1
            /\ cache' = cache
            /\ store' = store]_vars

\* A stale command on a cached element while the registered watcher's
\* reference is not on screen: the pass asked the driver, nothing fired.
C5_Witness ==
  /\ last.op = "action"
  /\ StaleFailure(last.first)
  /\ last.passes = 1
  /\ last.passLog # <<>>
  /\ ~last.triggered
  /\ LiveRef(cache, last.elementId, now)
  /\ last.outcome = last.first

C7_ActsOnResolvedId ==
  last.op = "action" => last.invoked[1] = last.actualId

\* C8: when the re-location of a stale element yields newId, elementId
\* resolves to newId afterwards, the command is run exactly once more, on
\* newId, and the call returns what that retry answered; the re-location is
\* attempted whenever a watcher fired and the locator is cached.
C8_RemapAndRetryOnce ==
  [][(IsCall /\ last'.op = "action") =>
       /\ last'.newId # None =>
            /\ StaleFailure(last'.first) /\ last'.triggered
            /\ ResolveId(cache', last'.elementId) = last'.newId
            /\ Len(last'.invoked) = 2
            /\ last'.invoked[2] = last'.newId
            /\ last'.nextCalls = 2
            /\ IF last'.outcome.kind = "ok"
               THEN last'.outcome = Done("later")
               ELSE last'.outcome.error.at = "later"
       /\ (StaleFailure(last'.first) /\ last'.triggered
             /\ LiveRef(cache, ResolveId(cache, last'.elementId), now'))
            => Len(last'.relocations) = 1]_vars

\* A recovery that found the element under another id and whose retry
\* succeeded.
C8_Witness ==
  /\ last.op = "action"
  /\ last.newId \notin {None, last.elementId}
  /\ last.invoked = <<last.elementId, last.newId>>
  /\ HasMapping(cache, last.elementId)
  /\ cache.idMappings[last.elementId] = last.newId
  /\ last.outcome = Done("later")

\* C9: the gate is open at the start; a pass over a disabled store, or over
\* a store with no unexpired watcher, makes no driver call and returns
\* false; a pass over an enabled store looks for the reference of every
\* unexpired active watcher; closing or opening the gate changes no watcher,
\* and registering does not depend on the gate.
C9_GateAndEmptyRegistry ==
  /\ store.enabled
  /\ [][/\ (IsCall /\ last'.passes = 1
              /\ (~store.enabled \/ Unexpired(store, now) = {}))
             => (last'.passLog = <<>> /\ ~last'.triggered)
        /\ (IsCall /\ last'.passes = 1 /\ store.enabled)
             => { ReferenceLocatorOf(n) : n \in Unexpired(store, now) }
                  \subseteq { last'.passLog[k].locator : k \in 1..Len(last'.passLog) }
        /\ store'.enabled # store.enabled => store'.watchers = store.watchers
        /\ Len(store'.watchers) > Len(store.watchers)
             => \E p \in RegistryParams :
                  store'.watchers = Add(Enable(store), p, now).store.watchers
       ]_vars

\* A pass over a disabled store that holds an unexpired watcher.
C9_Witness ==
  /\ last.passes = 1
  /\ last.passLog = <<>>
  /\ ~store.enabled
  /\ Unexpired(store, now) # {}

\* The lookups of names follow the order of the pass over st: a higher
\* priority first, and of two equal priorities the one registered earlier.
InPassOrder(st, names) ==
  \A i, j \in 1..Len(names) : i < j =>
    LET a == GetWatcher(st, names[i])
        b == GetWatcher(st, names[j])
    IN \/ a.priority > b.priority
       \/ /\ a.priority = b.priority
          /\ WatcherIndex(st, names[i]) < WatcherIndex(st, names[j])

\* C10: in a pass the reference lookups are made once per unexpired
\* watcher, in priority-descending order, and in registration order among
\* watchers of equal priority.
C10_PassOrder ==
  [][(IsCall /\ last'.passes = 1 /\ store.enabled) =>
       LET names == ReferenceLookups(last'.passLog) IN
       /\ NoDuplicates(names)
       /\ { names[i] : i \in 1..Len(names) } = Unexpired(store, now)
       /\ InPassOrder(store', names)]_vars

\* Three watchers registered low, high, high: the pass looks for the two
\* high ones in registration order, then for the low one.
C10_Witness ==
  /\ last.passes = 1
  /\ Len(store.watchers) = 3
  /\ store.watchers[1].priority = 0
  /\ store.watchers[2].priority = 1
  /\ store.watchers[3].priority = 1
  /\ store.watchers[1].registeredAt < store.watchers[3].registeredAt
  /\ ReferenceLookups(last.passLog) =
       <<store.watchers[2].name, store.watchers[3].name, store.watchers[1].name>>

\* The names stored in st, and the stored watchers that are unexpired and
\* active at time t.
StoredNames(st) == { st.watchers[i].name : i \in 1..Len(st.watchers) }

ActiveUnexpired(st, t) ==
  { n \in Unexpired(st, t) : GetWatcher(st, n).status = "active" }

\* The watchers whose trigger count went up from st to st2.
Fired(st, st2) ==
  { n \in StoredNames(st) \cap StoredNames(st2) :
      GetWatcher(st2, n).triggerCount > GetWatcher(st, n).triggerCount }

\* C11: a pass over an enabled store looks for the reference of every
\* unexpired active watcher, whatever happened to the watchers before it;
\* the caller never receives a failure raised inside the pass; the pass
\* returns true exactly when a watcher's dismissal succeeded in it.
C11_FullPass ==
  [][(IsCall /\ last'.passes = 1 /\ store.enabled) =>
       LET names == ReferenceLookups(last'.passLog) IN
       /\ { names[i] : i \in 1..Len(names) } = ActiveUnexpired(store, now)
       /\ last'.triggered <=> Fired(store, store') # {}
       /\ last'.outcome = last'.first \/ last'.outcome.kind = "ok"]_vars

\* Three watchers were looked for: the click of the first failed, the
\* second was not on screen, the third fired.
C11_Witness ==
  LET names == ReferenceLookups(last.passLog) IN
  /\ last.passes = 1
  /\ Len(names) = 3
  /\ Len(last.passLog) = 7
  /\ last.passLog[3].cmd = "click"
  /\ last.passLog[7].cmd = "click"
  /\ last.triggered
  /\ StoredNames(store) = {"w1", "w2", "w3"}
  /\ GetWatcher(store, names[1]).triggerCount = 0
  /\ GetWatcher(store, names[3]).triggerCount = 1

\* The driver calls of log that are made for the watcher n.
CallsFor(log, n) ==
  { k \in 1..Len(log) :
      log[k].locator \in {ReferenceLocatorOf(n), ActionLocatorOf(n)} }

\* C12: a watcher with stopOnFound fires at most once and is inactive from
\* then on: the pass in which it fires marks it inactive, a pass makes no
\* driver call for a watcher that is inactive, and a stored watcher that is
\* inactive stays inactive for as long as it is stored.
C12_StopOnFoundStops ==
  /\ [](\A i \in 1..Len(store.watchers) :
          store.watchers[i].stopOnFound =>
            /\ store.watchers[i].triggerCount <= 1
            /\ store.watchers[i].triggerCount = 1
                 <=> store.watchers[i].status = "inactive")
  /\ [][/\ IsCall =>
             /\ \A n \in Fired(store, store') :
                  GetWatcher(store', n).stopOnFound
                    => GetWatcher(store', n).status = "inactive"
             /\ \A n \in StoredNames(store) :
                  GetWatcher(store, n).status = "inactive"
                    => CallsFor(last'.passLog, n) = {}
        /\ \A n \in StoredNames(store) \cap StoredNames(store') :
             GetWatcher(store, n).status = "inactive"
               => GetWatcher(store', n).status = "inactive"]_vars

\* A second pass: the watcher that stopped in the first is not looked for,
\* the others are.
C12_Witness ==
  /\ last.seq = 2
  /\ last.passes = 1
  /\ HasWatcher(store, "w1")
  /\ GetWatcher(store, "w1").status = "inactive"
  /\ GetWatcher(store, "w1").triggerCount = 1
  /\ CallsFor(last.passLog, "w1") = {}
  /\ Len(ReferenceLookups(last.passLog)) = 2

\* C13: the dismissal of a watcher with stopOnFound is not followed by a
\* cooldown wait: a pass in which only such watchers fired takes no time.
C13_NoCooldownWhenStopOnFound ==
  [][(IsCall /\ \A n \in Fired(store, store') :
                  GetWatcher(store', n).stopOnFound)
       => now' = now]_vars

\* The sum of cooldownMs over the watchers of st named in S.
RECURSIVE SumCooldowns(_, _)
SumCooldowns(st, S) ==
  IF S = {} THEN 0
  ELSE LET n == CHOOSE x \in S : TRUE
       IN GetWatcher(st, n).cooldownMs + SumCooldowns(st, S \ {n})

\* The position in log of the last driver call made for the watcher n.
LastCallFor(log, n) ==
  CHOOSE k \in CallsFor(log, n) : \A j \in CallsFor(log, n) : j <= k

\* C14: the cooldown waits of a pass follow one another: the pass lasts at
\* least the sum of cooldownMs over the watchers without stopOnFound that
\* fired in it, and every driver call made after such a watcher fired is
\* made no earlier than its cooldown after its click; the watchers that did
\* not fire add no wait.
C14_SequentialCooldowns ==
  [][(IsCall /\ last'.passes = 1) =>
       LET log == last'.passLog
           fired == Fired(store, store')
           waiting == { n \in fired : ~GetWatcher(store', n).stopOnFound }
       IN /\ now' - now >= SumCooldowns(store', waiting)
          /\ now' - now <= SumCooldowns(store', fired)
          /\ \A k \in 1..Len(log) : now <= log[k].at /\ log[k].at <= now'
          /\ \A j, k \in 1..Len(log) : j < k => log[j].at <= log[k].at
          /\ \A n \in waiting : \A k \in 1..Len(log) :
               k > LastCallFor(log, n)
                 => log[k].at >= log[LastCallFor(log, n)].at
                                   + GetWatcher(store', n).cooldownMs]_vars

\* Two watchers without stopOnFound fired in the one pass of the session,
\* the second a cooldown after the first.
C14_Witness ==
  /\ last.seq = 1
  /\ last.triggered
  /\ {"w2", "w3"} \subseteq StoredNames(store)
  /\ GetWatcher(store, "w2").triggerCount = 1
  /\ GetWatcher(store, "w3").triggerCount = 1
  /\ GetWatcher(store, "w2").lastTriggeredAt
       # GetWatcher(store, "w3").lastTriggeredAt

\* The observed step is a register command whose parameters are valid.
ValidRegister ==
  /\ IsCall
  /\ last'.op = "registerUIWatcher"
  /\ ValidateWatcherParams(last'.params) = None

\* C15: a register command with valid parameters fails with the
\* duplicate-name error exactly when its name is held by an unexpired
\* watcher; a name whose registration has expired can be registered again,
\* pruned from the storage or not.
C15_DuplicateIffUnexpired ==
  [][ValidRegister =>
       (last'.reply = Rejected("AlreadyExists")
          <=> last'.params.name \in Unexpired(store, now))]_vars

C17_ExpiredIsAbsent ==
  [][IsCall =>
       /\ (last'.op = "unregisterUIWatcher"
             /\ last'.params.name \notin Unexpired(store, now))
            => last'.reply = Rejected("NotFound")
       /\ last'.op = "clearAllUIWatchers"
            => last'.reply.removedCount = Cardinality(Unexpired(store, now))
       /\ last'.op = "listUIWatchers"
            => /\ { last'.reply.watchers[i].name :
                      i \in 1..Len(last'.reply.watchers) }
                    = Unexpired(store, now)
               /\ last'.reply.totalCount = Cardinality(Unexpired(store, now))
       /\ last'.passes = 1
            => LET names == ReferenceLookups(last'.passLog)
               IN { names[i] : i \in 1..Len(names) }
                    \subseteq Unexpired(store, now)]_vars

UnexpiredWatchers(st, t) == SelectSeq(st.watchers, LAMBDA w : t < w.expiresAt)

\* C19: a register command that fails, on the validation, the capacity or
\* the duplicate name, leaves the unexpired watchers, each with its fields,
\* and the enabled flag as they were; when the validation fails the store
\* is not touched at all and the reply is the validation's error.
C19_FailedRegisterChangesNothing ==
  [][(IsCall /\ last'.op = "registerUIWatcher" /\ last'.reply.kind = "error") =>
       /\ UnexpiredWatchers(store', now') = UnexpiredWatchers(store, now)
       /\ store'.enabled = store.enabled
       /\ ValidateWatcherParams(last'.params) # None
            => /\ store' = store
               /\ last'.reply = Rejected(ValidateWatcherParams(last'.params))]_vars

\* The capacity error was answered while the watchers were disabled, five
\* watchers are unexpired, and the storage holds nothing else.
C19_Witness ==
  /\ last.op = "registerUIWatcher"
  /\ last.reply = Rejected("MaximumReached")
  /\ ~store.enabled
  /\ Len(UnexpiredWatchers(store, now)) = MAX_WATCHERS

\* C20: unregister of the name of an unexpired watcher answers the removed
\* name and deletes exactly that watcher: the other watchers keep their
\* fields and order, the enabled flag is kept, list no longer reports the
\* name and the name can be registered again; unregister of a name that
\* the registry does not hold answers NotFound and changes nothing; a pass
\* looks only for the references of watchers the registry holds.
C20_UnregisterRemovesExactlyOne ==
  [][IsCall =>
       /\ last'.op = "unregisterUIWatcher" =>
            LET n == last'.params.name IN
            /\ n \in Unexpired(store, now) =>
                 /\ last'.reply = [kind |-> "ok", removed |-> n]
                 /\ store'.watchers
                      = SelectSeq(store.watchers, LAMBDA w : w.name # n)
                 /\ Len(store'.watchers) = Len(store.watchers) - 1
                 /\ store'.enabled = store.enabled
                 /\ LET listed == ListUIWatchersReply(store', now').reply.watchers
                    IN \A i \in 1..Len(listed) : listed[i].name # n
                 /\ RegisterUIWatcherReply(store', [name |-> n, duration |-> 1],
                                           now').reply.kind = "ok"
            /\ n \notin StoredNames(store) =>
                 /\ last'.reply = Rejected("NotFound")
                 /\ store' = store
       /\ last'.passes = 1 =>
            LET names == ReferenceLookups(last'.passLog)
            IN { names[i] : i \in 1..Len(names) } \subseteq StoredNames(store)]_vars

\* A watcher was unregistered before any watcher could expire, while
\* another one was registered: the other one is still there.
C20_Witness ==
  /\ last.op = "unregisterUIWatcher"
  /\ last.reply = [kind |-> "ok", removed |-> "w1"]
  /\ Unexpired(store, now) = {"w2"}
  /\ now = 0

\* The sequence s without x, the rest in order.
Without(s, x) == SelectSeq(s, LAMBDA y : y # x)

\* C21: the cache never holds more than MaxCacheEntries entries, and its
\* recency order lists exactly the cached ids, each once.  A touch (an
\* insert, an overwrite, a lookup that hits) makes the id the most recent
\* one and keeps the order of the others; inserting a new id into a full
\* cache evicts exactly the least recent id.
C21_LruEviction ==
  /\ [](/\ Cardinality(DOMAIN cache.entries) <= MaxCacheEntries
        /\ { cache.accessOrder[i] : i \in 1..Len(cache.accessOrder) }
             = DOMAIN cache.entries
        /\ NoDuplicates(cache.accessOrder))
  /\ [][IsCall =>
          LET id == last'.elementId
              order == cache.accessOrder
              full == Cardinality(DOMAIN cache.entries) = MaxCacheEntries
          IN /\ (last'.op = "cacheElement" /\ id \notin DOMAIN cache.entries) =>
                  /\ cache'.accessOrder
                       = Append(IF full THEN Tail(order) ELSE order, id)
                  /\ \A x \in DOMAIN cache.entries \cap DOMAIN cache'.entries :
                       cache'.entries[x] = cache.entries[x]
             /\ (last'.op = "cacheElement" /\ id \in DOMAIN cache.entries
                   /\ ~full) =>
                  cache'.accessOrder = Append(Without(order, id), id)
             /\ (last'.op = "getRef" /\ last'.reply.kind = "ok") =>
                  /\ cache'.accessOrder = Append(Without(order, id), id)
                  /\ cache'.entries = cache.entries]_vars

\* A new id was inserted into a full cache whose least recent entry was
\* younger than its most recent one: a lookup had hit the older entry, and
\* the insertion evicted the younger one instead.
C21_Witness ==
  /\ last.op = "cacheElement"
  /\ LET b == last.params.before
         lru == b.accessOrder[1]
         mru == b.accessOrder[Len(b.accessOrder)]
     IN /\ Len(b.accessOrder) = MaxCacheEntries
        /\ last.elementId \notin DOMAIN b.entries
        /\ b.entries[mru].createdAt < b.entries[lru].createdAt
        /\ lru \notin DOMAIN cache.entries
        /\ mru \in DOMAIN cache.entries

\* The age of the entry id of cache c at time t.
AgeOf(c, id, t) == t - c.entries[id].createdAt

C23_SingleHop ==
  \A x \in DOMAIN cache.idMappings :
    cache.idMappings[x] \notin DOMAIN cache.idMappings

\* ------------------------------------------------------------------ C24
\* The plugin pl holds a store or a cache for session s.
Holds(pl, s) == s \in DOMAIN pl.stores \/ s \in DOMAIN pl.caches

\* The step observed is a teardown of its session that went through:
\* deleteSession whose next() resolved, or onUnexpectedShutdown.
TornDown(obs) ==
  /\ obs.op \in {"deleteSession", "onUnexpectedShutdown"}
  /\ obs.reply.kind = "ok"

\* C24: when a session is torn down, by deleteSession or by
\* onUnexpectedShutdown, the plugin afterwards holds no store and no cache
\* for that session id.
C24_TeardownDiscards ==
  [][(IsCall /\ TornDown(last')) => ~Holds(plugin', last'.session)]_vars

\* A deleteSession went through for a session that had a store with a
\* watcher and a cache with an entry, and both are gone.
C24_Witness ==
  /\ TornDown(last)
  /\ last.op = "deleteSession"
  /\ last.session \in DOMAIN last.params.before.stores
  /\ last.session \in DOMAIN last.params.before.caches
  /\ last.params.before.stores[last.session].watchers # <<>>
  /\ DOMAIN last.params.before.caches[last.session].entries # {}
  /\ ~Holds(plugin, last.session)

\* ------------------------------------------------------------------ C25
\* C25: once a session is torn down and no call of it is in flight any
\* more, the plugin holds no store and no cache for that session id, also
\* when the teardown ran while a lookup of the session was suspended.
C25_NothingOutlivesSession ==
  \A s \in ended :
    (flight = NoFlight \/ flight.session # s) => ~Holds(plugin, s)

\* ------------------------------------------------------------------ C26
\* What the plugin holds for session s.
SessionData(pl, s) ==
  [store |-> IF s \in DOMAIN pl.stores
             THEN [held |-> TRUE, value |-> pl.stores[s]]
             ELSE [held |-> FALSE],
   cache |-> IF s \in DOMAIN pl.caches
             THEN [held |-> TRUE, value |-> pl.caches[s]]
             ELSE [held |-> FALSE]]

\* C26: a step performed for one session (a command, a step of an
\* intercepted lookup, a watcher pass, a teardown) leaves the store and
\* the cache of every other session as they were.
C26_SessionsIsolated ==
  [][IsCall =>
       \A b \in SessionIds \ {last'.session} :
         SessionData(plugin', b) = SessionData(plugin, b)]_vars

\* A session that held a store was shut down while the other session held
\* a store with a watcher and a cache with an entry, which it still holds.
C26_Witness ==
  /\ last.op = "onUnexpectedShutdown"
  /\ last.session \in DOMAIN last.params.before.stores
  /\ \E b \in SessionIds \ {last.session} :
       /\ b \in DOMAIN plugin.stores /\ b \in DOMAIN plugin.caches
       /\ plugin.stores[b].watchers # <<>>
       /\ DOMAIN plugin.caches[b].entries # {}
       /\ SessionData(plugin, b) = SessionData(last.params.before, b)

\* ------------------------------------------------------------------ C27
\* C27: an element the driver answered in either wire shape reaches the
\* click of checkWatchers and the cache as its id string: the click
\* receives the id extractElementId finds, and findElement and
\* findElements cache the element under that id.
C27_CanonicalId ==
  /\ last.op = "checkWatchers" =>
       \A n \in DOMAIN last.reply.clicks :
         last.reply.clicks[n] =
           [kind |-> "id",
            id |-> ExtractElementId(last.params.actionElements[n])]
  /\ (/\ last.op = "findElement"
      /\ "element" \in DOMAIN last.params
      /\ ExtractElementId(last.params.element) # None)
       => ExtractElementId(last.params.element) \in DOMAIN cache.entries
  /\ (last.op = "findElements" /\ "elements" \in DOMAIN last.params)
       => \A i \in 1..Len(last.params.elements) :
            ExtractElementId(last.params.elements[i]) \in DOMAIN cache.entries

\* ------------------------------------------------------------------ C28
\* The driver found the reference of the watcher but not its action
\* element, or the click failed.
ActionFailed(answer) == answer \in {"actionNotFound", "clickFailed"}

\* The step observed is a pass of which the driver's answers are known.
IsPass(obs) == obs.op = "checkWatchers" /\ "answers" \in DOMAIN obs.params

\* The watchers that fired in the pass observed.
FiredNames(obs) ==
  { n \in DOMAIN obs.params.answers : obs.params.answers[n] = "clicked" }

\* The cooldown waits of the watchers `names` of the store st, added up.
RECURSIVE CooldownSum(_, _)
CooldownSum(st, names) ==
  IF names = {} THEN 0
  ELSE LET n == CHOOSE x \in names : TRUE
       IN GetWatcher(st, n).cooldownMs + CooldownSum(st, names \ {n})

\* C28: a watcher whose reference was found but whose action element was
\* not located or not clicked is left as it was by the pass: its trigger
\* count, its last trigger time and its status (active, also with
\* stopOnFound) are unchanged, and the pass waits only the cooldowns of
\* the watchers that fired.
C28_FailedActionChangesNothing ==
  [][(IsCall /\ IsPass(last')) =>
       /\ \A n \in DOMAIN last'.params.answers :
            ActionFailed(last'.params.answers[n]) =>
              /\ HasWatcher(store', n)
              /\ GetWatcher(store', n) = GetWatcher(store, n)
              /\ GetWatcher(store', n).status = "active"
       /\ now' = now + CooldownSum(store, FiredNames(last'))]_vars

\* The click of a watcher with stopOnFound and a cooldown failed while
\* the other watcher fired: the first is still active and was not counted,
\* and no time was waited.
C28_Witness ==
  /\ IsPass(last)
  /\ DOMAIN last.params.answers = {"w1", "w2"}
  /\ last.params.answers["w1"] = "clickFailed"
  /\ last.params.answers["w2"] = "clicked"
  /\ GetWatcher(store, "w1").stopOnFound
  /\ GetWatcher(store, "w1").cooldownMs > 0
  /\ GetWatcher(store, "w1").status = "active"
  /\ GetWatcher(store, "w1").triggerCount = 0
  /\ GetWatcher(store, "w2").triggerCount = 1
  /\ now = last.params.at

\* ------------------------------------------------------------------ C29
\* The step is a pass in which the watcher n fired.
FiredInPass(n) == IsCall /\ IsPass(last') /\ n \in FiredNames(last')

\* The watcher n is registered before and after the step, by the same
\* registration.
SameWatcher(n) ==
  /\ HasWatcher(store, n)
  /\ HasWatcher(store', n)
  /\ GetWatcher(store', n).registeredAt = GetWatcher(store, n).registeredAt

\* C29: the trigger count and the last trigger time of a watcher change
\* only in a pass in which it fired, where the count grows by one and the
\* time is the time of the dismissal; every other step (register or
\* unregister of another watcher, list, enable, disable, a pass that did
\* not fire it, a lookup with its cache write) leaves both.
C29_CountsDismissals ==
  [][\A n \in WatcherNames :
       SameWatcher(n) =>
         IF FiredInPass(n)
         THEN /\ GetWatcher(store', n).triggerCount
                   = GetWatcher(store, n).triggerCount + 1
              /\ GetWatcher(store', n).lastTriggeredAt >= now
              /\ GetWatcher(store', n).lastTriggeredAt <= now'
         ELSE /\ GetWatcher(store', n).triggerCount
                   = GetWatcher(store, n).triggerCount
              /\ GetWatcher(store', n).lastTriggeredAt
                   = GetWatcher(store, n).lastTriggeredAt]_vars

\* A watcher fired in two passes and its count is two, while the other
\* watcher, unregistered in between or not fired, was not counted.
C29_Witness ==
  /\ IsPass(last)
  /\ last.seq = 2
  /\ "w2" \in FiredNames(last)
  /\ GetWatcher(store, "w2").triggerCount = 2
  /\ GetWatcher(store, "w2").lastTriggeredAt = last.params.at
  /\ HasWatcher(store, "w1")
  /\ GetWatcher(store, "w1").triggerCount = 0

\* ------------------------------------------------------------------ C30
\* The step is an element command that went stale, after a pass in which
\* a watcher fired, and whose cached entry was found.
IsRelocation(obs) ==
  obs.op = "action" /\ obs.refFound /\ "findElements" \in DOMAIN obs.params

\* The cached entry the recovery observed looked up.
RelocatedRef(obs) == obs.params.before.entries[obs.actualId]

\* What the driver answered to the re-location of the entry ref.
RelocationAnswer(obs, ref) ==
  IF ref.source = "findElement" THEN obs.params.findElement
  ELSE obs.params.findElements

\* The answer a re-locates the entry ref: it found an element, or a list
\* that reaches the cached index.
Relocates(a, ref) ==
  /\ a.kind = "ok"
  /\ ref.source = "findElements" => Len(a.elements) > ref.index

\* The element the answer a re-locates the entry ref to.
RelocatedElement(a, ref) ==
  IF ref.source = "findElement" THEN a.element
  ELSE a.elements[ref.index + 1]

\* C30: the re-location of a stale element is one driver lookup of the
\* cached locator, findElement for an entry cached by findElement and
\* findElements for one cached by findElements, of which the element at
\* the cached index is taken; when the lookup fails or answers fewer than
\* index + 1 elements the command is not retried, no mapping is recorded
\* and the caller gets a failure that is not the original stale error.
C30_RelocationFollowsSource ==
  [][(IsCall /\ IsRelocation(last')) =>
       LET ref == RelocatedRef(last')
           a == RelocationAnswer(last', ref)
       IN /\ Len(last'.relocations) = 1
          /\ last'.relocations[1].cmd = ref.source
          /\ last'.relocations[1].locator
               = [using |-> ref.using, value |-> ref.value]
          /\ IF Relocates(a, ref)
             THEN /\ last'.newId = RelocatedElement(a, ref)
                  /\ last'.invoked = <<last'.elementId, last'.newId>>
             ELSE /\ last'.newId = None
                  /\ last'.invoked = <<last'.elementId>>
                  /\ cache'.idMappings = cache.idMappings
                  /\ last'.outcome.kind = "error"
                  /\ last'.outcome # last'.first]_vars

\* An entry cached by findElements at index 1 was re-located to the second
\* element of the list the driver answered.
C30_Witness ==
  /\ IsRelocation(last)
  /\ RelocatedRef(last).source = "findElements"
  /\ RelocatedRef(last).index = 1
  /\ last.params.findElements = FoundMany(<<"e3", "e1">>)
  /\ last.newId = "e1"
  /\ last.relocations[1].cmd = "findElements"

\* ------------------------------------------------------------------ C31
\* The ids the reverse index lists as mapped to the id new.
ReverseSet(c, new) ==
  IF new \in DOMAIN c.reverseIndex THEN c.reverseIndex[new] ELSE {}

\* C31: the reverse index agrees with the mapping table: old is in the
\* reverse set of new exactly when the table maps old to new.
C31_ReverseAgrees ==
  \A old \in MappingIds : \A new \in MappingIds :
    (old \in ReverseSet(cache, new))
      <=> (HasMapping(cache, old) /\ cache.idMappings[old] = new)

\* ------------------------------------------------------------------ C32
\* C32: an element command on an id that an earlier recovery mapped, whose
\* first attempt goes stale again while a watcher fires and the entry the
\* id was cached with has not expired, finds a cached locator for the id
\* it is mapped to: the recovery goes on to the re-location and does not
\* end with the failure for a missing cache entry.
C32_RecoverableAgain ==
  [][(/\ IsCall
      /\ last'.op = "action"
      /\ StaleFailure(last'.first)
      /\ last'.triggered
      /\ HasMapping(cache, last'.elementId)
      /\ LiveRef(cache, last'.elementId, now'))
       => (last'.refFound /\ last'.outcome # RecoveryError)]_vars

\* ------------------------------------------------------------------ C33
\* The driver call is made for the watcher n: it looks for its reference
\* or its action element, or clicks the latter.
CallFor(call, n) ==
  call.locator \in {ReferenceLocatorOf(n), ActionLocatorOf(n)}

\* C33: a pass makes no driver call for a watcher that is expired at the
\* time of the call, also when the watcher expires during the pass, while
\* an earlier watcher's cooldown is waited.
C33_NoCallForExpired ==
  [][(IsCall /\ IsPass(last')) =>
       \A i \in 1..Len(last'.passLog) :
         \A n \in WatcherNames :
           (HasWatcher(store, n) /\ CallFor(last'.passLog[i], n))
             => ~IsExpiredWatcher(GetWatcher(store, n), last'.passLog[i].at)]_vars

\* ------------------------------------------------------------------ C34
\* C34: with one intercepted call at a time, a watcher registered with
\* stopOnFound has fired at most once, and a watcher is inactive only if
\* it has stopOnFound and has fired.
C34_StopOnFoundFiresOnce ==
  \A i \in 1..Len(store.watchers) :
    LET w == store.watchers[i]
    IN /\ w.stopOnFound => w.triggerCount <= 1
       /\ w.status = "inactive" => (w.stopOnFound /\ w.triggerCount >= 1)

\* After two passes in which both watchers were on screen whenever they
\* were looked for, the watcher with stopOnFound fired once and is
\* inactive, and the other fired twice and is active.
C34_Witness ==
  /\ last.seq = 2
  /\ IsPass(last)
  /\ HasWatcher(store, "w1") /\ HasWatcher(store, "w2")
  /\ GetWatcher(store, "w1").stopOnFound
  /\ GetWatcher(store, "w1").status = "inactive"
  /\ GetWatcher(store, "w1").triggerCount = 1
  /\ GetWatcher(store, "w2").status = "active"
  /\ GetWatcher(store, "w2").triggerCount = 2

\* ------------------------------------------------------------------ C35
\* C35: a watcher registered with stopOnFound is dismissed at most once,
\* also when two passes of its session overlap: its count of successful
\* dismissals never exceeds one.
C35_FiresOnceWhenOverlapping ==
  \A i \in 1..Len(store.watchers) :
    store.watchers[i].stopOnFound => store.watchers[i].triggerCount <= 1

\* ------------------------------------------------------------------ C36
\* C36: a deleteSession whose underlying call failed still discards the
\* store and the cache of its session: after the attempt the plugin holds
\* neither for that session id.
C36_FailedDeleteStillDiscards ==
  [][(IsCall /\ last'.op = "deleteSession" /\ last'.reply.kind = "error")
       => ~Holds(plugin', last'.session)]_vars

\* ------------------------------------------------------------------ C37
\* C37: recording an entry for an id that is already cached while the
\* cache is full only overwrites that entry and makes it the most recent
\* one: no other entry is evicted and the size stays.
C37_OverwriteEvictsNothing ==
  [][(/\ IsCall
      /\ last'.op = "cacheElement"
      /\ last'.elementId \in DOMAIN cache.entries
      /\ Cardinality(DOMAIN cache.entries) = MaxCacheEntries)
       => /\ DOMAIN cache'.entries = DOMAIN cache.entries
          /\ cache'.accessOrder
               = Append(Without(cache.accessOrder, last'.elementId),
                        last'.elementId)]_vars

\* ------------------------------------------------------------------ C38
\* C38: the recency order and the cache describe the same set: the order
\* lists every cached id exactly once and no id that is not cached, after
\* any sequence of records of single and of many elements, lookups,
\* sweeps, evictions, clears and remappings.
C38_OrderListsTheCache ==
  /\ { cache.accessOrder[i] : i \in 1..Len(cache.accessOrder) }
       = DOMAIN cache.entries
  /\ Len(cache.accessOrder) = Cardinality(DOMAIN cache.entries)

\* A list longer than the cache was recorded into a cache that held an
\* entry: the entries that did not fit were evicted, and the order lists
\* the ones that stayed.
C38_Witness ==
  /\ last.op = "cacheElements"
  /\ DOMAIN last.params.before.entries # {}
  /\ Cardinality(DOMAIN cache.entries) = MaxCacheEntries
  /\ cache.accessOrder = <<"e1", "e2">>
  /\ "e3" \notin DOMAIN cache.entries

\* ------------------------------------------------------------------ C39
\* The loop `while (size >= maxCacheEntries) evictLRU()` ends when it is
\* started on the cache c: it does not come to a cache that is full while
\* the recency order has nothing left to evict.
RECURSIVE EvictionEnds(_)
EvictionEnds(c) ==
  IF Cardinality(DOMAIN c.entries) < MaxCacheEntries THEN TRUE
  ELSE IF Len(c.accessOrder) = 0 THEN FALSE
  ELSE EvictionEnds(EvictLRU(c))

\* C39: in every reachable state of the cache the eviction loop of an
\* insertion ends, so that cacheElement and cacheElements complete.
C39_EvictionEnds == EvictionEnds(cache)

\* A new id was recorded into a full cache: the loop evicted and the
\* insertion completed with the cache full again.
C39_Witness ==
  /\ last.op = "cacheElement"
  /\ Cardinality(DOMAIN last.params.before.entries) = MaxCacheEntries
  /\ last.elementId \notin DOMAIN last.params.before.entries
  /\ last.elementId \in DOMAIN cache.entries
  /\ Cardinality(DOMAIN cache.entries) = MaxCacheEntries

\* ------------------------------------------------------------------ C40
\* C40: the entries and the id mappings are independent: recording (with
\* its evictions), lookups (with the expiry they apply) and cleanup leave
\* the mappings and the reverse index as they were, setMapping leaves the
\* entries and their order as they were, and clear empties both.
C40_EntriesAndMappingsIndependent ==
  [][IsCall =>
       /\ last'.op \in {"cacheElement", "cacheElements", "getRef", "cleanup"}
            => /\ cache'.idMappings = cache.idMappings
               /\ cache'.reverseIndex = cache.reverseIndex
       /\ last'.op = "setMapping"
            => /\ cache'.entries = cache.entries
               /\ cache'.accessOrder = cache.accessOrder
       /\ last'.op = "clear"
            => /\ DOMAIN cache'.entries = {}
               /\ DOMAIN cache'.idMappings = {}
               /\ DOMAIN cache'.reverseIndex = {}]_vars

\* A cache that held an entry and a mapping was cleared and holds
\* neither.
C40_Witness ==
  /\ last.op = "clear"
  /\ DOMAIN last.params.before.entries # {}
  /\ DOMAIN last.params.before.idMappings # {}
  /\ DOMAIN cache.entries = {}
  /\ DOMAIN cache.idMappings = {}

====
